---- MODULE Spec2Model ----
(***************************************************************************)
(* Service Bus: message settlement after the receiver is closed, and the   *)
(* paged listing of management entities.                                   *)
(*                                                                         *)
(* Settlement follows sdk/servicebus/service-bus/test/                     *)
(* backupMessageSettlement.spec.ts: an entity (queue or subscription, with *)
(* or without sessions), senders, peek-lock receivers, the received        *)
(* message objects and their complete / abandon / defer / deadLetter /     *)
(* renewLock methods.  The bodies of those methods live in                 *)
(* src/serviceBusMessage.ts, which is not part of the corpus; they are     *)
(* modelled from the specification (section 4.2) where the test file is    *)
(* silent and from the test file's assertions where it speaks.             *)
(*                                                                         *)
(* Paged listing follows ServiceBusManagementClient (getQueues, byPage,    *)
(* listQueuesAll, listQueuesPage, listQueues, listResources,               *)
(* buildListQueuesResponse); the service that answers the list requests    *)
(* is modelled from the specification (section 6).  Specification Spec     *)
(* runs the settlement, specification PageSpec the listing, and            *)
(* specification ClientSpec a caller that uses either of the two.          *)
(* RaceSpec runs the settlement with dispositions that overlap, PassSpec   *)
(* the listing with a caller that iterates over an iterator again, and     *)
(* ExistsSpec the queueExists / topicExists / subscriptionExists calls.    *)
(***************************************************************************)
EXTENDS Integers, Sequences, FiniteSets, TLC

(* ---------------------------------------------------------------- bounds *)

\* Messages a sender may put into the entity.
MaxMsgs == 1
\* Received-message objects the receivers may hand out (one per delivery).
MaxObjs == 2
\* Peek-lock receivers (AMQP receive links) the client may create on the
\* entity, one after the other.
MaxReceivers == 2
\* renewLock requests the service answers (each one reads the service clock).
MaxTime == 1
\* Lock duration of the entity, in ticks of the service clock.
LockDuration == 1

\* Entity records the service may hold in the listed collection.
MaxEntities == 3
\* Largest maxPageSize a caller passes to byPage().
MaxPageSize == 2
\* Entities the service puts on a page when the request names no $top.
DefaultPageSize == 2
\* Scans (getQueues() iterators and byPage() iterators) the caller creates.
MaxScans == 2
\* List requests one scan is followed for (more than any scan of a service
\* that keeps the wire contract sends).
MaxRequests == 4

\* Dispositions that may be in flight at the transport at one time.
MaxCalls == 2

\* Times the caller starts to iterate over one iterator of getQueues().
MaxPasses == 2

MsgIds == 1..MaxMsgs
ObjIds == 1..MaxObjs
\* The dead-letter receiver of the test (createDeadLetterReceiver).
deadLetterReceiver == 0
ReceiverIds == {deadLetterReceiver} \cup (1..MaxReceivers)

(* ------------------------------------------------------------- constants *)

\* DispositionType, as the test interpolates it into the expected error text.
DispositionType ==
  [complete |-> "complete", abandon |-> "abandon",
   defer |-> "defer", deadletter |-> "deadletter"]

\* The four disposition verbs (complete(), abandon(), defer(), deadLetter()).
DispositionVerbs ==
  {DispositionType.complete, DispositionType.abandon,
   DispositionType.defer, DispositionType.deadletter}

\* The operation name of renewLock().
RenewLockOp == "renewLock"

Operations == DispositionVerbs \cup {RenewLockOp}

\* Per-message states of the settlement state machine.
MessageStates == {"Locked", "Settled", "LockLost", "LinkSevered"}

\* Outcome kinds of a call on a received message.
OutcomeKinds ==
  {"ok", "LinkSevered", "InvalidOperation", "LockLost", "AlreadySettled", "Transport"}

(* ------------------------------------------------- values of the language *)

\* undefined, null, a string (its characters) and a number as a value.
Undefined == [type |-> "undefined"]
Null == [type |-> "null"]
Str(chars) == [type |-> "string", chars |-> chars]
Num(n) == [type |-> "number", num |-> n]

\* A number: NaN, or sign, integer part and the digits of the fraction
\* (without trailing zeros; none for an integer).
NaN == [nan |-> TRUE, neg |-> FALSE, whole |-> 0, frac |-> <<>>]
IntegerValue(n) ==
  [nan |-> FALSE, neg |-> n < 0, whole |-> IF n < 0 THEN 0 - n ELSE n,
   frac |-> <<>>]

Digits == <<"0", "1", "2", "3", "4", "5", "6", "7", "8", "9">>
IsDigit(c) == \E d \in 1..10 : Digits[d] = c
DigitValue(c) == (CHOOSE d \in 1..10 : Digits[d] = c) - 1

\* The value of a run of decimal digits (0 for the empty run).
RECURSIVE Decimal(_)
Decimal(ds) ==
  IF ds = <<>> THEN 0
  ELSE Decimal(SubSeq(ds, 1, Len(ds) - 1)) * 10 + DigitValue(ds[Len(ds)])

\* n.toString() of an integer n >= 0.
RECURSIVE toString(_)
toString(n) ==
  IF n < 10 THEN <<Digits[n + 1]>>
  ELSE toString(n \div 10) \o <<Digits[(n % 10) + 1]>>

\* The digits of a fraction without its trailing zeros.
RECURSIVE StripZeros(_)
StripZeros(ds) ==
  IF ds # <<>> /\ ds[Len(ds)] = "0" THEN StripZeros(SubSeq(ds, 1, Len(ds) - 1))
  ELSE ds

\* Number(string): the empty string is 0, a decimal literal (sign, digits,
\* at most one point, a digit somewhere) is its value, anything else NaN.
StringToNumber(chars) ==
  LET neg == chars # <<>> /\ chars[1] = "-"
      body == IF neg THEN Tail(chars) ELSE chars
      dots == {i \in 1..Len(body) : body[i] = "."}
      dot == IF dots = {} THEN Len(body) + 1
             ELSE CHOOSE i \in dots : \A j \in dots : i <= j
      intPart == SubSeq(body, 1, dot - 1)
      fracPart == SubSeq(body, dot + 1, Len(body))
      literal == /\ Cardinality(dots) <= 1
                 /\ \A i \in 1..Len(intPart) : IsDigit(intPart[i])
                 /\ \A i \in 1..Len(fracPart) : IsDigit(fracPart[i])
                 /\ Len(intPart) + Len(fracPart) > 0
  IN  IF chars = <<>> THEN IntegerValue(0)
      ELSE IF ~literal THEN NaN
      ELSE [nan |-> FALSE, neg |-> neg, whole |-> Decimal(intPart),
            frac |-> StripZeros(fracPart)]

\* number.toString().
NumberToString(x) ==
  IF x.nan THEN <<"N", "a", "N">>
  ELSE (IF x.neg /\ (x.whole # 0 \/ x.frac # <<>>) THEN <<"-">> ELSE <<>>)
       \o toString(x.whole)
       \o (IF x.frac = <<>> THEN <<>> ELSE <<".">> \o x.frac)

\* Number(value).
Number(v) ==
  IF v.type = "undefined" THEN NaN
  ELSE IF v.type = "null" THEN IntegerValue(0)
  ELSE IF v.type = "number" THEN v.num
  ELSE StringToNumber(v.chars)

\* x >= 0 on numbers: false for NaN, true for -0.
GreaterOrEqualZero(x) ==
  ~x.nan /\ (~x.neg \/ (x.whole = 0 /\ x.frac = <<>>))

\* Whether a number is an integer >= 0.
IsNaturalNumber(x) == ~x.nan /\ x.frac = <<>> /\ (~x.neg \/ x.whole = 0)

\* Truthiness of a number (`if (options.skip)`): NaN and 0 are falsy.
TruthyNumber(x) == ~x.nan /\ (x.whole # 0 \/ x.frac # <<>>)

\* Truthiness of a marker (`while (marker)`): undefined, null and the empty
\* string are falsy, every other string is truthy.
Truthy(v) ==
  IF v.type = "string" THEN v.chars # <<>>
  ELSE IF v.type = "number" THEN TruthyNumber(v.num)
  ELSE FALSE

(* ---------------------------------------------------------------- state  *)

VARIABLES
  usesSessions,   \* entityNames.usesSessions of the entity under test
  now,            \* the service clock, as read when a lock is renewed
  srv,            \* the entity's messages, by sequence number
  receivers,      \* the receive links the client created
  msgs,           \* the received-message objects handed to the caller
  nextObj,        \* number of received-message objects handed out
  result,         \* what the call on a received message that has just
                  \* returned gave its caller (NoResult after any other step)
  inflight,       \* the dispositions sent to the transport and not yet
                  \* answered, in the order they were sent
  namespace,      \* the kinds of entity the service holds under the names asked for
  lookup,         \* the queueExists / topicExists / subscriptionExists call
                  \* that has just returned
  collection,     \* the raw queue records the service holds, in its order
  serviceFault,   \* what the service does wrong when it answers a list request
  scans           \* the iterators the caller got from getQueues() and byPage()

\* The state of the settlement and the state of the listing.
settlement ==
  <<usesSessions, now, srv, receivers, msgs, nextObj, result, inflight>>
paging == <<collection, serviceFault, scans>>
management == <<namespace, lookup>>

vars == <<usesSessions, now, srv, receivers, msgs, nextObj, result, inflight,
          namespace, lookup, collection, serviceFault, scans>>

ScanIds == 1..MaxScans

\* A service that answers every list request as the wire contract says.
NoFault == [kind |-> "none", skip |-> 0]

\* An iterator slot the caller has not filled yet.  kind: "all" for the
\* iterator of getQueues(), "page" for one of byPage().  pc: where the
\* generator stands ("start": not run yet, "suspended": at its yield, "done",
\* "threw").  awaiting: the consumer called next() and has no answer yet.
\* token, maxPageSize: the PageSettings given to byPage() (undefined: none).
\* marker: the local variable of listQueuesPage.  segment: the items of the
\* page in hand that listQueuesAll has not yielded yet.  pulls: the next()
\* calls of the consumer.  requests, pages, items: the list requests sent,
\* the pages the page generator yielded and the items yielded so far.
\* passes: the [Symbol.asyncIterator]() calls on the iterator of getQueues(),
\* each with the number of items yielded before it.
NoScan ==
  [kind |-> "none", pc |-> "none", awaiting |-> FALSE, pulls |-> 0,
   token |-> Undefined, maxPageSize |-> Undefined, marker |-> Undefined,
   segment |-> <<>>, requests |-> <<>>, pages |-> <<>>, items |-> <<>>,
   error |-> "none", passes |-> <<>>]

\* No call has asked whether an entity exists.
NoLookup ==
  [op |-> "none", answer |-> [threw |-> FALSE, parsedBody |-> Undefined],
   outcome |-> "none", error |-> Undefined]

\* No entity is asked for.
NoManagement ==
  /\ namespace = {}
  /\ lookup = NoLookup

\* No listing goes on.
NoPaging ==
  /\ collection = <<>>
  /\ serviceFault = NoFault
  /\ scans = [i \in ScanIds |-> NoScan]

\* A message slot of the entity that no sender has filled yet.
NoServerMsg ==
  [st |-> "none", queue |-> "main", token |-> 0, deferred |-> FALSE]

\* A received-message object slot not handed out yet.
NoObj ==
  [sm |-> 0, link |-> 0, sessionId |-> FALSE, state |-> "None",
   lockedUntilUtc |-> 0, sequenceNumber |-> 0,
   remote_settled |-> FALSE]

\* No call has been made yet.
NoResult ==
  [op |-> "none", obj |-> 0, outcome |-> "none", message |-> <<>>,
   requests |-> 0, answer |-> "none", returned |-> 0,
   linkOpen |-> TRUE, sessionId |-> FALSE, stateBefore |-> "None",
   lockedUntilBefore |-> 0, lockHeld |-> FALSE]

\* beforeEachTest: createTestEntities(entityType), with or without sessions.
Init ==
  /\ usesSessions \in BOOLEAN
  /\ now = 0
  /\ srv = [s \in MsgIds |-> NoServerMsg]
  /\ receivers = [r \in ReceiverIds |-> "unopened"]
  /\ msgs = [o \in ObjIds |-> NoObj]
  /\ nextObj = 0
  /\ result = NoResult
  /\ inflight = <<>>
  /\ NoManagement
  /\ NoPaging

(* --------------------------------------------------------------- helpers *)

\* receiver.isOpen(): the liveness of the link that delivered a message.
isOpen(r) == receivers[r] = "open"

\* The sub-queue a receiver reads: the dead-letter receiver reads the
\* dead-letter sub-queue, every other receiver the entity itself.
QueueOf(r) == IF r = deadLetterReceiver THEN "dlq" ELSE "main"

\* The released state of a message: back to the deferred set when it had been
\* deferred, else available to the next receiver.
ReleasedState(s) == IF srv[s].deferred THEN "deferred" ELSE "active"

\* testPeekMsgsLength: the messages a peek on sub-queue q sees (available,
\* locked and deferred ones alike).
PeekMsgsLength(q) ==
  Cardinality({s \in MsgIds :
                 srv[s].queue = q /\ srv[s].st \in {"active", "locked", "deferred"}})

\* The next message a receiver on sub-queue q is given: the available message
\* with the lowest sequence number (0: none).
NextAvailable(q) ==
  LET avail == {s \in MsgIds : srv[s].queue = q /\ srv[s].st = "active"}
  IN  IF avail = {} THEN 0 ELSE CHOOSE s \in avail : \A t \in avail : s <= t

\* The text with the verb left out of it.
LinkSeveredMessage_NoVerb(verb) ==
  <<"Failed to ", "settle",
    " the message as the AMQP link with which the message was received is no longer alive.">>

\* The error text of a settlement refused because the link is gone, as
\* the test builds it: `Failed to ${DispositionType.x} the message as ...`.
LinkSeveredMessage(verb) ==
  <<"Failed to ", verb,
    " the message as the AMQP link with which the message was received is no longer alive.">>

\* renewLock() answering with the text of a refused settlement.
InvalidOperationMessage_LinkText == LinkSeveredMessage(RenewLockOp)

\* The error text of renewLock() on a message of a session.
InvalidOperationMessage ==
  <<"Invalid operation on the message, message lock doesn't exist when dealing with sessions">>

\* The text carried by an outcome that comes back from the transport.
TransportMessage(kind) == IF kind = "ok" THEN <<>> ELSE <<kind>>

(* ------------------------------------------------------- entity and links *)

\* sender.sendMessages(testMessage): the entity assigns the next sequence number.
sendMessages(s) ==
  /\ srv[s].st = "none"
  /\ \A t \in MsgIds : t < s => srv[t].st # "none"
  /\ srv' = [srv EXCEPT ![s] = [NoServerMsg EXCEPT !.st = "active"]]
  /\ result' = NoResult
  /\ UNCHANGED <<usesSessions, now, receivers, msgs, nextObj, paging, inflight, management>>

\* serviceBusClient.test.getPeekLockReceiver(entityNames): a new receive link
\* on the entity.  A session is held by one link at a time.
getPeekLockReceiver(r) ==
  /\ r # deadLetterReceiver
  /\ receivers[r] = "unopened"
  /\ \A p \in 1..MaxReceivers : p < r => receivers[p] # "unopened"
  /\ usesSessions => \A p \in 1..MaxReceivers : ~isOpen(p)
  /\ receivers' = [receivers EXCEPT ![r] = "open"]
  /\ result' = NoResult
  /\ UNCHANGED <<usesSessions, now, srv, msgs, nextObj, paging, inflight, management>>

\* serviceBusClient.test.createDeadLetterReceiver(entityNames): the link on
\* the dead-letter sub-queue, which the test reads for the entity without
\* sessions.
createDeadLetterReceiver ==
  /\ ~usesSessions
  /\ receivers[deadLetterReceiver] = "unopened"
  /\ receivers' = [receivers EXCEPT ![deadLetterReceiver] = "open"]
  /\ result' = NoResult
  /\ UNCHANGED <<usesSessions, now, srv, msgs, nextObj, paging, inflight, management>>

\* receiver.close(): the link is gone for good.  Closing the link of a session
\* gives the session up, and with it the lock on every message received
\* through it; the lock of a message of an entity without sessions stays with
\* the service until it is settled or expires.
close(r) ==
  /\ isOpen(r)
  /\ receivers' = [receivers EXCEPT ![r] = "closed"]
  /\ srv' = [s \in MsgIds |->
               IF /\ usesSessions
                  /\ srv[s].st = "locked"
                  /\ msgs[srv[s].token].link = r
               THEN [srv[s] EXCEPT !.st = ReleasedState(s), !.token = 0]
               ELSE srv[s]]
  /\ result' = NoResult
  /\ UNCHANGED <<usesSessions, now, msgs, nextObj, paging, inflight, management>>

\* The message object a receiver hands out for message s, locked now.
Delivered(s, r) ==
  [sm |-> s, link |-> r,
   sessionId |-> usesSessions,
   state |-> "Locked",
   lockedUntilUtc |-> now + LockDuration,
   sequenceNumber |-> s,
   remote_settled |-> FALSE]

\* The entity's record of message s once it is locked for object o.
LockedFor(s, o) ==
  [srv[s] EXCEPT !.st = "locked", !.token = o]

\* receiver.receiveMessages(1): peek-lock the next available message.
receiveMessages(r) ==
  LET s == NextAvailable(QueueOf(r))
      o == nextObj + 1
  IN  /\ isOpen(r)
      /\ nextObj < MaxObjs
      /\ s # 0
      /\ srv' = [srv EXCEPT ![s] = LockedFor(s, o)]
      /\ msgs' = [msgs EXCEPT ![o] = Delivered(s, r)]
      /\ nextObj' = o
      /\ result' = NoResult
      /\ UNCHANGED <<usesSessions, now, receivers, paging, inflight, management>>

\* receiver.receiveDeferredMessages(sequenceNumber): lock a deferred message.
receiveDeferredMessages(r, s) ==
  LET o == nextObj + 1
  IN  /\ isOpen(r)
      /\ QueueOf(r) = "main"
      /\ nextObj < MaxObjs
      /\ srv[s].st = "deferred"
      /\ srv[s].queue = "main"
      /\ srv' = [srv EXCEPT ![s] = LockedFor(s, o)]
      /\ msgs' = [msgs EXCEPT ![o] = Delivered(s, r)]
      /\ nextObj' = o
      /\ result' = NoResult
      /\ UNCHANGED <<usesSessions, now, receivers, paging, inflight, management>>

\* The lock on message s runs out (how long that takes is not measured), and
\* the service takes the lock back: the message is available again.
LockExpire(s) ==
  /\ srv[s].st = "locked"
  /\ srv' = [srv EXCEPT ![s] = [@ EXCEPT !.st = ReleasedState(s), !.token = 0]]
  /\ result' = NoResult
  /\ UNCHANGED <<usesSessions, now, receivers, msgs, nextObj, paging, inflight, management>>

(* -------------------------------------------------- settlement of a message *)

\* The guard refusing whenever the link is closed, session or not.
throwIfLinkSevered_AnyEntity(m) == ~isOpen(m.link)

\* The guard looking for any open receiver of the entity instead of the link
\* that delivered the message.
throwIfLinkSevered_AnyOpenLink(m) ==
  m.sessionId /\ \A r \in 1..MaxReceivers : ~isOpen(r)

\* The guard in front of a settlement: the link that delivered the message
\* reports closed and the message belongs to a session.  (An entity without
\* sessions keeps the lock at the service, so the call goes on without the
\* link; the test expects no error there.)
throwIfLinkSevered(m) == ~isOpen(m.link) /\ m.sessionId

\* The renewLock guard refusing on a closed link instead.
throwIfSessionLock_ClosedLink(m) == ~isOpen(m.link)

\* The guard in front of renewLock(): a message of a session has no message
\* lock to renew.
throwIfSessionLock(m) == m.sessionId

\* Whether the service still holds the lock that object o was handed.
LockHeld(o) ==
  LET s == msgs[o].sm
  IN  srv[s].st = "locked" /\ srv[s].token = o

\* The transport not remembering which deliveries it settled.
DispositionAnswers_NoSettledCheck(o) ==
  {"Transport"} \cup { IF ~LockHeld(o) THEN "LockLost" ELSE "ok" }

\* What the transport may answer to a forwarded disposition of object o: a
\* delivery settled before is refused as already settled, a lock the service
\* no longer holds as lost; any request may fail in the transport itself.
DispositionAnswers(o) ==
  {"Transport"} \cup
  { IF msgs[o].remote_settled THEN "AlreadySettled"
    ELSE IF ~LockHeld(o) THEN "LockLost"
    ELSE "ok" }

\* What the transport may answer to a forwarded renewLock of object o.
RenewAnswers(o) ==
  {"Transport"} \cup { IF ~LockHeld(o) THEN "LockLost" ELSE "ok" }

\* A confirmed complete() giving the message back to the entity.
Disposed_CompleteReleases(s, verb) ==
  IF verb \in {DispositionType.complete, DispositionType.abandon}
  THEN [srv[s] EXCEPT !.st = ReleasedState(s), !.token = 0]
  ELSE IF verb = DispositionType.defer
  THEN [srv[s] EXCEPT !.st = "deferred", !.token = 0, !.deferred = TRUE]
  ELSE [srv[s] EXCEPT !.st = "active", !.token = 0, !.queue = "dlq",
                      !.deferred = FALSE]

\* A confirmed abandon() taking the message out of the entity.
Disposed_AbandonRemoves(s, verb) ==
  IF verb \in {DispositionType.complete, DispositionType.abandon}
  THEN [srv[s] EXCEPT !.st = "removed", !.token = 0]
  ELSE IF verb = DispositionType.defer
  THEN [srv[s] EXCEPT !.st = "deferred", !.token = 0, !.deferred = TRUE]
  ELSE [srv[s] EXCEPT !.st = "active", !.token = 0, !.queue = "dlq",
                      !.deferred = FALSE]

\* A confirmed defer() leaving the message available like an abandoned one.
Disposed_DeferReleases(s, verb) ==
  IF verb = DispositionType.complete
  THEN [srv[s] EXCEPT !.st = "removed", !.token = 0]
  ELSE IF verb \in {DispositionType.abandon, DispositionType.defer}
  THEN [srv[s] EXCEPT !.st = ReleasedState(s), !.token = 0]
  ELSE [srv[s] EXCEPT !.st = "active", !.token = 0, !.queue = "dlq",
                      !.deferred = FALSE]

\* A confirmed deadLetter() leaving the message in the sub-queue it was in.
Disposed_DeadLetterStays(s, verb) ==
  IF verb = DispositionType.complete
  THEN [srv[s] EXCEPT !.st = "removed", !.token = 0]
  ELSE IF verb = DispositionType.abandon
  THEN [srv[s] EXCEPT !.st = ReleasedState(s), !.token = 0]
  ELSE IF verb = DispositionType.defer
  THEN [srv[s] EXCEPT !.st = "deferred", !.token = 0, !.deferred = TRUE]
  ELSE [srv[s] EXCEPT !.st = "active", !.token = 0, !.deferred = FALSE]

\* The entity's record of message s after a confirmed disposition.
Disposed(s, verb) ==
  IF verb = DispositionType.complete
  THEN [srv[s] EXCEPT !.st = "removed", !.token = 0]
  ELSE IF verb = DispositionType.abandon
  THEN [srv[s] EXCEPT !.st = ReleasedState(s), !.token = 0]
  ELSE IF verb = DispositionType.defer
  THEN [srv[s] EXCEPT !.st = "deferred", !.token = 0, !.deferred = TRUE]
  ELSE [srv[s] EXCEPT !.st = "active", !.token = 0, !.queue = "dlq",
                      !.deferred = FALSE]

\* The state following the outcome whatever the message's state was.
NextState_FromAnyState(state, outcome) ==
  IF outcome = "ok" THEN "Settled"
  ELSE IF outcome = "LockLost" THEN "LockLost"
  ELSE IF outcome = "LinkSevered" THEN "LinkSevered"
  ELSE state

\* The state of a message object after a disposition with the given outcome:
\* only a Locked message moves.
NextState(state, outcome) ==
  IF state # "Locked" THEN state
  ELSE IF outcome = "ok" THEN "Settled"
  ELSE IF outcome = "LockLost" THEN "LockLost"
  ELSE IF outcome = "LinkSevered" THEN "LinkSevered"
  ELSE state

\* The state of a message object after renewLock() with the given outcome: a
\* renewed message stays Locked, one whose lock the service gave up is lost.
RenewNextState(state, outcome) ==
  IF state = "Locked" /\ outcome = "LockLost" THEN "LockLost" ELSE state

\* A renewal that hands back the lockedUntilUtc the message already had.
RenewedUntil_Stale(o) == msgs[o].lockedUntilUtc

\* The lockedUntilUtc a confirmed renewal of object o returns: one lock
\* duration after the time the service reads when the request arrives, which
\* is later than any time it read before.
RenewedUntil(o) == now + 1 + LockDuration

\* What a call op on object o gives its caller: the outcome kind, the error
\* text, the number of requests the call sent, what the transport answered
\* (none while no request was sent) and the value returned on success; with it, what the call found when it was made: whether the link
\* was open, whether the message belongs to a session, the state of the
\* message, its lockedUntilUtc, and whether the service still held its lock.
Outcome(o, op, kind, text, reqs, ret) ==
  [op |-> op, obj |-> o, outcome |-> kind, message |-> text,
   requests |-> reqs, answer |-> "none", returned |-> ret,
   linkOpen |-> isOpen(msgs[o].link), sessionId |-> msgs[o].sessionId,
   stateBefore |-> msgs[o].state, lockedUntilBefore |-> msgs[o].lockedUntilUtc,
   lockHeld |-> LockHeld(o)]

\* The refused disposition giving up the message's lock at the service all
\* the same.
SettleRejected_ReleasesLock(o, verb) ==
  /\ throwIfLinkSevered(msgs[o])
  /\ result' = Outcome(o, verb, "LinkSevered", LinkSeveredMessage(verb), 0, 0)
  /\ msgs' = [msgs EXCEPT ![o].state = NextState(@, "LinkSevered")]
  /\ srv' = [srv EXCEPT ![msgs[o].sm] = Disposed(msgs[o].sm, verb)]
  /\ UNCHANGED <<usesSessions, now, receivers, nextObj, paging, inflight, management>>

\* The guard refuses the disposition: no request leaves the client.
SettleRejected(o, verb) ==
  /\ throwIfLinkSevered(msgs[o])
  /\ result' = Outcome(o, verb, "LinkSevered", LinkSeveredMessage(verb), 0, 0)
  /\ msgs' = [msgs EXCEPT ![o].state = NextState(@, "LinkSevered")]
  /\ UNCHANGED <<usesSessions, now, srv, receivers, nextObj, paging, inflight, management>>

\* The result of a call that was forwarded, with the transport's answer.
Answered(res, kind) == [res EXCEPT !.answer = kind]

\* The forwarded disposition hiding the transport's failure behind an error
\* of its own.
SettleForwarded_Wrapped(o, verb) ==
  /\ ~throwIfLinkSevered(msgs[o])
  /\ \E kind \in DispositionAnswers(o) :
       LET shown == IF kind = "ok" THEN "ok" ELSE "Transport"
       IN  /\ result' = Answered(Outcome(o, verb, shown, TransportMessage(shown), 1, 0), kind)
           /\ msgs' = [msgs EXCEPT ![o].state = NextState(@, kind),
                                   ![o].remote_settled = @ \/ kind = "ok"]
           /\ srv' = IF kind = "ok"
                     THEN [srv EXCEPT ![msgs[o].sm] = Disposed(msgs[o].sm, verb)]
                     ELSE srv
  /\ UNCHANGED <<usesSessions, now, receivers, nextObj, paging, inflight, management>>

\* The forwarded disposition giving up the link when the transport fails.
SettleForwarded_DropsLink(o, verb) ==
  /\ ~throwIfLinkSevered(msgs[o])
  /\ \E kind \in DispositionAnswers(o) :
       /\ result' = Answered(Outcome(o, verb, kind, TransportMessage(kind), 1, 0), kind)
       /\ msgs' = [msgs EXCEPT ![o].state = NextState(@, kind),
                               ![o].remote_settled = @ \/ kind = "ok"]
       /\ srv' = IF kind = "ok"
                 THEN [srv EXCEPT ![msgs[o].sm] = Disposed(msgs[o].sm, verb)]
                 ELSE srv
       /\ receivers' = IF kind = "Transport" /\ isOpen(msgs[o].link)
                       THEN [receivers EXCEPT ![msgs[o].link] = "closed"]
                       ELSE receivers
  /\ UNCHANGED <<usesSessions, now, nextObj, paging, inflight, management>>

\* The disposition is forwarded: one request, whose answer is the outcome.
SettleForwarded(o, verb) ==
  /\ ~throwIfLinkSevered(msgs[o])
  /\ \E kind \in DispositionAnswers(o) :
       /\ result' = Answered(Outcome(o, verb, kind, TransportMessage(kind), 1, 0), kind)
       /\ msgs' = [msgs EXCEPT ![o].state = NextState(@, kind),
                               ![o].remote_settled = @ \/ kind = "ok"]
       /\ srv' = IF kind = "ok"
                 THEN [srv EXCEPT ![msgs[o].sm] = Disposed(msgs[o].sm, verb)]
                 ELSE srv
  /\ UNCHANGED <<usesSessions, now, receivers, nextObj, paging, inflight, management>>

\* msg.complete(), msg.abandon(), msg.defer(), msg.deadLetter().
settleMessage(o, verb) ==
  /\ msgs[o].state # "None"
  /\ \/ SettleRejected(o, verb)
     \/ SettleForwarded(o, verb)

\* renewLock() on a message of a session is refused at once.
RenewRejected(o) ==
  /\ throwIfSessionLock(msgs[o])
  /\ result' = Outcome(o, RenewLockOp, "InvalidOperation", InvalidOperationMessage, 0, 0)
  /\ UNCHANGED <<usesSessions, now, srv, receivers, msgs, nextObj, paging, inflight, management>>

\* renewLock() is forwarded: one request, whose answer is the outcome; a
\* confirmed renewal sets and returns the new lockedUntilUtc.
RenewForwarded(o) ==
  /\ ~throwIfSessionLock(msgs[o])
  /\ now < MaxTime
  /\ now' = now + 1
  /\ \E kind \in RenewAnswers(o) :
       /\ result' = Answered(Outcome(o, RenewLockOp, kind, TransportMessage(kind), 1,
                                     IF kind = "ok" THEN RenewedUntil(o) ELSE 0),
                             kind)
       /\ msgs' = [msgs EXCEPT
                     ![o].state = RenewNextState(@, kind),
                     ![o].lockedUntilUtc = IF kind = "ok" THEN RenewedUntil(o) ELSE @]
  /\ UNCHANGED <<usesSessions, srv, receivers, nextObj, paging, inflight, management>>

\* msg.renewLock().
renewLock(o) ==
  /\ msgs[o].state # "None"
  /\ \/ RenewRejected(o)
     \/ RenewForwarded(o)

(* ----------------------------------------------------------- specification *)

Next ==
  \/ \E s \in MsgIds : sendMessages(s)
  \/ \E r \in ReceiverIds : getPeekLockReceiver(r)
  \/ createDeadLetterReceiver
  \/ \E r \in ReceiverIds : close(r)
  \/ \E r \in ReceiverIds : receiveMessages(r)
  \/ \E r \in ReceiverIds, s \in MsgIds : receiveDeferredMessages(r, s)
  \/ \E o \in ObjIds, verb \in DispositionVerbs : settleMessage(o, verb)
  \/ \E o \in ObjIds : renewLock(o)
  \/ \E s \in MsgIds : LockExpire(s)

Spec == Init /\ [][Next]_vars

TypeOK ==
  /\ usesSessions \in BOOLEAN
  /\ now \in 0..MaxTime
  /\ \A r \in ReceiverIds : receivers[r] \in {"unopened", "open", "closed"}
  /\ nextObj \in 0..MaxObjs
  /\ \A o \in ObjIds : msgs[o].state \in MessageStates \cup {"None"}
  /\ \A o \in ObjIds : (msgs[o].state = "None") = (o > nextObj)
  /\ result.outcome \in OutcomeKinds \cup {"none"}

(* ------------------------------------------------------------------ claims *)

\* A call has just returned, and it was one of the four dispositions.
DispositionReturned == result.op \in DispositionVerbs

\* A call has just returned, and it was renewLock().
RenewLockReturned == result.op = RenewLockOp

\* C1: on a message of a session whose receiving link is closed, complete(),
\* abandon(), defer() and deadLetter() each reject, and the error text is
\* exactly "Failed to <verb> the message as the AMQP link with which the
\* message was received is no longer alive." with the verb that was called.
C1_SessionSettleRejects ==
  (DispositionReturned /\ result.sessionId /\ ~result.linkOpen) =>
     /\ result.outcome = "LinkSevered"
     /\ result.message =
          <<"Failed to ", result.op,
            " the message as the AMQP link with which the message was received is no longer alive.">>

\* C1 witness: deadLetter() on a message of a session has just been refused
\* after its receiver was closed.
C1_Witness ==
  /\ result.op = DispositionType.deadletter
  /\ result.sessionId
  /\ ~result.linkOpen
  /\ result.outcome = "LinkSevered"

\* C2: on a message of an entity without sessions whose receiving link is
\* closed, complete(), abandon(), defer() and deadLetter() never fail with
\* the link error: the call is forwarded (one request), and no such message
\* is ever in the LinkSevered state.
C2_NoSessionNeverSevered ==
  /\ (DispositionReturned /\ ~result.sessionId /\ ~result.linkOpen) =>
        (result.outcome # "LinkSevered" /\ result.requests = 1)
  /\ \A o \in ObjIds : ~msgs[o].sessionId => msgs[o].state # "LinkSevered"

\* C2 witness: abandon() succeeded on a message without session after its
\* receiver was closed.
C2_Witness ==
  /\ result.op = DispositionType.abandon
  /\ ~result.sessionId
  /\ ~result.linkOpen
  /\ result.outcome = "ok"
  /\ msgs[result.obj].state = "Settled"

\* C3, as the specification states it: on a message without session whose
\* receiving link is closed, renewLock() rejects with the link error.
C3_Original ==
  (RenewLockReturned /\ ~result.sessionId /\ ~result.linkOpen) =>
     result.outcome = "LinkSevered"

\* C3, amended: on a message without session whose receiving link is closed,
\* renewLock() is not blocked by the closed link: it is never refused on the
\* client, the request goes to the service, and it succeeds whenever the
\* service still holds the lock and the transport does not fail.
C3_RenewNotBlocked ==
  (RenewLockReturned /\ ~result.sessionId /\ ~result.linkOpen) =>
     /\ result.outcome \notin {"LinkSevered", "InvalidOperation"}
     /\ result.requests = 1
     /\ (result.lockHeld /\ result.outcome # "Transport") => result.outcome = "ok"

\* C3 witness: renewLock() succeeded on a message without session after its
\* receiver was closed.
C3_Witness ==
  /\ RenewLockReturned
  /\ ~result.sessionId
  /\ ~result.linkOpen
  /\ result.outcome = "ok"

\* C4: on a message without session, after the receiver that delivered it is
\* closed (the service still holding the lock, the transport not failing, as
\* in testRenewLock), renewLock() succeeds and returns a lockedUntilUtc
\* strictly later than the one the message had before; a following complete()
\* on the same message succeeds too and takes the message out of the entity.
C4_RenewThenComplete ==
  LET testCase == /\ ~result.sessionId
                  /\ ~result.linkOpen
                  /\ result.lockHeld
                  /\ result.outcome # "Transport"
  IN  /\ (RenewLockReturned /\ testCase) =>
            /\ result.outcome = "ok"
            /\ result.returned > result.lockedUntilBefore
            /\ msgs[result.obj].lockedUntilUtc = result.returned
            /\ msgs[result.obj].state = result.stateBefore
      /\ (result.op = DispositionType.complete /\ testCase) =>
            /\ result.outcome = "ok"
            /\ srv[msgs[result.obj].sm].st = "removed"

\* C4 witness: the end of testRenewLock without sessions: the lock was
\* renewed, then complete() succeeded with the receiver closed, and a peek
\* finds the entity empty.
C4_Witness ==
  /\ result.op = DispositionType.complete
  /\ ~result.sessionId
  /\ ~result.linkOpen
  /\ result.outcome = "ok"
  /\ result.lockedUntilBefore > LockDuration
  /\ PeekMsgsLength("main") = 0

\* C5: on a message of a session whose receiver is closed, renewLock()
\* rejects, and the error text is "Invalid operation on the message, message
\* lock doesn't exist when dealing with sessions".
C5_SessionRenewRejects ==
  (RenewLockReturned /\ result.sessionId /\ ~result.linkOpen) =>
     /\ result.outcome \notin {"ok", "none"}
     /\ result.message =
          <<"Invalid operation on the message, message lock doesn't exist when dealing with sessions">>

\* C5 witness: renewLock() on a message of a session has just been refused
\* after its receiver was closed.
C5_Witness ==
  /\ RenewLockReturned
  /\ result.sessionId
  /\ ~result.linkOpen
  /\ result.outcome = "InvalidOperation"

\* C6, as the specification states it: the guard refuses a call with the
\* link error if and only if the link is closed and (the message belongs to
\* a session or the call is renewLock); the refusal sends no request and its
\* text embeds the name of the operation.
C6_Original ==
  (result.op \in Operations) =>
     LET refused == result.outcome = "LinkSevered"
     IN  /\ refused <=> (~result.linkOpen /\ (result.sessionId \/ RenewLockReturned))
         /\ refused => /\ result.requests = 0
                       /\ result.message = LinkSeveredMessage(result.op)

\* C6, amended: a disposition (complete, abandon, defer, deadLetter) is
\* refused on the client if and only if the link is closed and the message
\* belongs to a session; the refusal sends no request and its text embeds the
\* verb; every other disposition is forwarded as one request.  renewLock() is
\* never refused with the link error: with the link closed it is refused
\* (no request, the "Invalid operation ..." text) on a message of a session
\* and forwarded on a message without session.
C6_GuardDecision ==
  /\ DispositionReturned =>
        LET refused == result.requests = 0
        IN  /\ refused <=> (~result.linkOpen /\ result.sessionId)
            /\ refused => /\ result.outcome = "LinkSevered"
                          /\ result.message = LinkSeveredMessage(result.op)
            /\ ~refused => /\ result.requests = 1
                           /\ result.outcome \in {"ok", "LockLost", "AlreadySettled", "Transport"}
  /\ RenewLockReturned =>
        /\ result.outcome # "LinkSevered"
        /\ (~result.linkOpen /\ result.sessionId) =>
              /\ result.requests = 0
              /\ result.outcome = "InvalidOperation"
              /\ result.message = InvalidOperationMessage
        /\ (~result.linkOpen /\ ~result.sessionId) => result.requests = 1

\* C6 witness: the guard has just refused defer() on a message of a session
\* whose link is closed, without a request.
C6_Witness ==
  /\ result.op = DispositionType.defer
  /\ result.sessionId
  /\ ~result.linkOpen
  /\ result.requests = 0
  /\ result.outcome = "LinkSevered"

\* C7: once the link of a message of a session is closed, it stays closed,
\* every later disposition on that message fails with the link error, and the
\* message is never made Settled through that object, also when another
\* receiver of the entity has been opened since.
C7_SeveredForever ==
  [][\A o \in ObjIds :
       (msgs[o].state # "None" /\ msgs[o].sessionId /\ ~isOpen(msgs[o].link)) =>
          /\ msgs'[o].link = msgs[o].link
          /\ receivers'[msgs[o].link] = "closed"
          /\ msgs[o].state # "Settled" => msgs'[o].state # "Settled"
          /\ (result'.obj = o /\ result'.op \in DispositionVerbs) =>
                (result'.outcome = "LinkSevered" /\ result'.requests = 0)]_vars

\* C7 witness: a disposition on a message of a session has just failed with
\* the link error while another receiver of the entity is open.
C7_Witness ==
  /\ DispositionReturned
  /\ result.sessionId
  /\ result.outcome = "LinkSevered"
  /\ \E r \in 1..MaxReceivers : isOpen(r) /\ r # msgs[result.obj].link

\* C8: a disposition on a message of a session that fails because the link is
\* closed leaves the entity as it was: no message is added, removed, locked,
\* released or moved, and a peek counts what it counted before.
C8_FailedSettleLeavesEntity ==
  [][result'.outcome = "LinkSevered" =>
        /\ srv' = srv
        /\ receivers' = receivers
        /\ PeekMsgsLength("main")' = PeekMsgsLength("main")
        /\ PeekMsgsLength("dlq")' = PeekMsgsLength("dlq")]_vars

\* C8 witness: the end of testComplete with sessions: the disposition on the
\* first object failed with the link error, a receiver opened afterwards
\* received the same message, completed it, and a peek finds the entity empty.
C8_Witness ==
  \E o1, o2 \in ObjIds :
     /\ msgs[o1].sessionId
     /\ msgs[o1].state = "LinkSevered"
     /\ msgs[o2].sm = msgs[o1].sm
     /\ msgs[o2].link # msgs[o1].link
     /\ msgs[o2].state = "Settled"
     /\ result.obj = o2
     /\ result.op = DispositionType.complete
     /\ result.outcome = "ok"
     /\ srv[msgs[o1].sm].st = "removed"
     /\ PeekMsgsLength("main") = 0

\* C9: complete() twice on the same message with the link alive: the first
\* call succeeds (the lock held, the transport not failing) and settles the
\* message; the second is answered AlreadySettled (unless the transport
\* fails), never reports success and leaves the message Settled.
C9_CompleteTwice ==
  LET completeOnOpenLink == result.op = DispositionType.complete /\ result.linkOpen
  IN  /\ ( /\ completeOnOpenLink
           /\ result.stateBefore = "Locked"
           /\ result.lockHeld
           /\ result.outcome # "Transport" ) =>
             (result.outcome = "ok" /\ msgs[result.obj].state = "Settled")
      /\ (completeOnOpenLink /\ result.stateBefore = "Settled") =>
             /\ result.outcome # "ok"
             /\ result.outcome # "Transport" => result.outcome = "AlreadySettled"
             /\ msgs[result.obj].state = "Settled"

\* C9 witness: the second complete() on a completed message has just been
\* answered AlreadySettled, the link open.
C9_Witness ==
  /\ result.op = DispositionType.complete
  /\ result.linkOpen
  /\ result.stateBefore = "Settled"
  /\ result.outcome = "AlreadySettled"
  /\ srv[msgs[result.obj].sm].st = "removed"

\* C10: a received message changes state only from Locked, and only to
\* Settled, LockLost or LinkSevered (a message object starts Locked when it is
\* received); a Settled message never leaves Settled.
C10_Transitions ==
  [][\A o \in ObjIds :
       msgs'[o].state # msgs[o].state =>
          \/ msgs[o].state = "None" /\ msgs'[o].state = "Locked"
          \/ /\ msgs[o].state = "Locked"
             /\ msgs'[o].state \in {"Settled", "LockLost", "LinkSevered"}]_vars

\* C10 witness: a disposition has just been refused with the link error on a
\* message that was Settled before, and the message is still Settled.
C10_Witness ==
  /\ DispositionReturned
  /\ result.stateBefore = "Settled"
  /\ result.outcome = "LinkSevered"
  /\ msgs[result.obj].state = "Settled"

\* C11: a failure the transport answers to a forwarded call (LockLost,
\* AlreadySettled, a transport error) is the outcome the caller gets, with the
\* transport's text; and LockLost only ever comes from the transport: a call
\* that sent no request never returns it.
C11_TransportFailureUnchanged ==
  result.op \in Operations =>
    /\ (result.requests = 0) = (result.answer = "none")
    /\ result.answer \in {"LockLost", "AlreadySettled", "Transport"} =>
          /\ result.outcome = result.answer
          /\ result.message = TransportMessage(result.answer)
    /\ result.outcome = "LockLost" =>
          /\ result.requests = 1
          /\ result.answer = "LockLost"

\* C11 witness: a disposition forwarded on a closed link has just been
\* answered LockLost by the transport, and the caller got LockLost.
C11_Witness ==
  /\ DispositionReturned
  /\ ~result.linkOpen
  /\ result.requests = 1
  /\ result.answer = "LockLost"
  /\ result.outcome = "LockLost"

\* Message s is the only one that was sent to the entity.
OnlyMessage(s) == \A t \in MsgIds \ {s} : srv[t].st = "none"

\* The disposition `verb` has just returned on a message that was Locked, on
\* an entity without sessions, the link that delivered the message closed.
ReturnedAfterClose(verb) ==
  /\ result.op = verb
  /\ ~result.sessionId
  /\ ~result.linkOpen
  /\ result.stateBefore = "Locked"

\* C24: without sessions, complete() on a message whose receiving link was
\* closed is not refused; it succeeds when the service still holds the lock
\* (and the transport does not fail), and a complete() that succeeded has
\* removed the message: no peek sees it (a peek on the entity counts 0 when
\* it was the only message), and a removed message never comes back, so any
\* receiver opened afterwards finds the same.
C24_CompleteRemoves ==
  /\ [](ReturnedAfterClose(DispositionType.complete) =>
          LET s == msgs[result.obj].sm
          IN  /\ result.outcome # "LinkSevered"
              /\ (result.lockHeld /\ result.outcome # "Transport") =>
                   result.outcome = "ok"
              /\ result.outcome = "ok" =>
                   /\ srv[s].st = "removed"
                   /\ OnlyMessage(s) =>
                        /\ PeekMsgsLength("main") = 0
                        /\ PeekMsgsLength("dlq") = 0)
  /\ [][\A s \in MsgIds : srv[s].st = "removed" => srv'[s].st = "removed"]_vars

\* C24 witness: complete() has just succeeded without sessions on the only
\* message of the entity, whose receiver was closed; another receiver is
\* open, and a peek counts 0.
C24_Witness ==
  /\ ReturnedAfterClose(DispositionType.complete)
  /\ result.outcome = "ok"
  /\ srv[msgs[result.obj].sm].st = "removed"
  /\ \E r \in 1..MaxReceivers : r # msgs[result.obj].link /\ isOpen(r)
  /\ PeekMsgsLength("main") = 0

\* C25: abandon() on a Locked message whose receiving link was closed leaves
\* the message in the entity, whichever way the call ends.  Without sessions
\* the call is not refused and succeeds when the service still holds the
\* lock (and the transport does not fail); the message is then released in
\* its sub-queue.  With sessions the call is refused with the link error,
\* and the message, released when the link was closed, is where the close
\* left it.  In both cases, the message received only this once, a peek
\* counts it (1 when it is the only message), and it is the one a new
\* receiver is given.
C25_AbandonRetains ==
  (/\ result.op = DispositionType.abandon
   /\ ~result.linkOpen
   /\ result.stateBefore = "Locked") =>
     LET o == result.obj
         s == msgs[o].sm
         q == srv[s].queue
         receivedOnce == \A p \in ObjIds : p # o => msgs[p].sm # s
     IN  /\ result.sessionId => result.outcome = "LinkSevered"
         /\ ~result.sessionId =>
              /\ result.outcome # "LinkSevered"
              /\ (result.lockHeld /\ result.outcome # "Transport") =>
                   result.outcome = "ok"
         /\ (result.outcome = "ok"
               \/ (result.outcome = "LinkSevered" /\ receivedOnce)) =>
              /\ srv[s].st = ReleasedState(s)
              /\ srv[s].token = 0
              /\ ~srv[s].deferred => NextAvailable(q) \in 1..s
              /\ PeekMsgsLength(q) >= 1
              /\ OnlyMessage(s) =>
                   /\ PeekMsgsLength(q) = 1
                   /\ ~srv[s].deferred => NextAvailable(q) = s

\* C25 witness: abandon() has just succeeded without sessions on a message
\* whose receiver was closed: the message is in the entity, available, and
\* a peek counts 1.
C25_Witness ==
  /\ ReturnedAfterClose(DispositionType.abandon)
  /\ result.outcome = "ok"
  /\ srv[msgs[result.obj].sm].st = "active"
  /\ NextAvailable("main") = msgs[result.obj].sm
  /\ PeekMsgsLength("main") = 1

\* C26: without sessions, defer() on a message whose receiving link was
\* closed is not refused; it succeeds when the service still holds the lock
\* (and the transport does not fail), and a defer() that succeeded has put the
\* message into the deferred set under the sequence number the message
\* object carries: no receiver is given it by receiveMessages(), a peek
\* still counts it, and any open receiver on the entity that asks for that
\* sequence number with receiveDeferredMessages() gets it.
C26_DeferMovesToDeferred ==
  ReturnedAfterClose(DispositionType.defer) =>
    LET o == result.obj
        s == msgs[o].sm
    IN  /\ result.outcome # "LinkSevered"
        /\ (result.lockHeld /\ result.outcome # "Transport") =>
             result.outcome = "ok"
        /\ result.outcome = "ok" =>
             /\ msgs[o].sequenceNumber = s
             /\ srv[s].st = "deferred"
             /\ srv[s].deferred
             /\ srv[s].token = 0
             /\ NextAvailable(srv[s].queue) # s
             /\ PeekMsgsLength(srv[s].queue) >= 1
             /\ OnlyMessage(s) => PeekMsgsLength(srv[s].queue) = 1
             /\ \A r \in 1..MaxReceivers :
                  (isOpen(r) /\ srv[s].queue = "main" /\ nextObj < MaxObjs) =>
                    ENABLED receiveDeferredMessages(r, msgs[o].sequenceNumber)

\* C26 witness: defer() has just succeeded without sessions on a message
\* whose receiver was closed; the message is deferred, and a new receiver is
\* open that can fetch it by its sequence number.
C26_Witness ==
  /\ ReturnedAfterClose(DispositionType.defer)
  /\ result.outcome = "ok"
  /\ srv[msgs[result.obj].sm].st = "deferred"
  /\ \E r \in 1..MaxReceivers :
       /\ r # msgs[result.obj].link
       /\ ENABLED receiveDeferredMessages(r, msgs[result.obj].sequenceNumber)

\* C27: without sessions, deadLetter() on a message whose receiving link was
\* closed is not refused; it succeeds when the service still holds the lock
\* (and the transport does not fail), and a deadLetter() that succeeded has
\* moved the message, the same message, to the dead-letter sub-queue: it is
\* available there to the dead-letter receiver and gone from the entity
\* itself, and when it was the only message the dead-letter sub-queue holds
\* exactly this one and the entity none.
C27_DeadLetterMoves ==
  ReturnedAfterClose(DispositionType.deadletter) =>
    LET s == msgs[result.obj].sm
    IN  /\ result.outcome # "LinkSevered"
        /\ (result.lockHeld /\ result.outcome # "Transport") =>
             result.outcome = "ok"
        /\ result.outcome = "ok" =>
             /\ srv[s].queue = "dlq"
             /\ srv[s].st = "active"
             /\ srv[s].token = 0
             /\ NextAvailable("dlq") \in 1..s
             /\ NextAvailable("main") # s
             /\ OnlyMessage(s) =>
                  /\ NextAvailable("dlq") = s
                  /\ PeekMsgsLength("dlq") = 1
                  /\ PeekMsgsLength("main") = 0
                  /\ (isOpen(deadLetterReceiver) /\ nextObj < MaxObjs) =>
                       ENABLED receiveMessages(deadLetterReceiver)

\* C27 witness: deadLetter() has just succeeded without sessions on a message
\* received from the entity whose receiver was closed; the dead-letter
\* receiver is open and the message waits in the dead-letter sub-queue.
C27_Witness ==
  /\ ReturnedAfterClose(DispositionType.deadletter)
  /\ result.outcome = "ok"
  /\ msgs[result.obj].link # deadLetterReceiver
  /\ isOpen(deadLetterReceiver)
  /\ NextAvailable("dlq") = msgs[result.obj].sm
  /\ PeekMsgsLength("dlq") = 1
  /\ PeekMsgsLength("main") = 0

(* ------------------------------------------------- the service, list side *)

\* A raw queue record of the service; the decoder reads a well-formed one.
RawQueue(i, ok) == [name |-> i, wellFormed |-> ok]

\* The collections the service may hold: up to MaxEntities records, named in
\* their order, at most one of them a record the decoder cannot read.
Collections ==
  UNION { { [i \in 1..n |-> RawQueue(i, i # bad)] : bad \in 0..n }
          : n \in 0..MaxEntities }

\* The next links of a first page that parse as URLs and yet carry no
\* position: a $skip that is a word, an empty $skip, no $skip at all.
OddLinks == {"wordSkip", "emptySkip", "noSkip"}

\* The faults of the service: none, or, in the answer to the request at one
\* of the positions up to the end of a default page, a body that is no array,
\* a next link that is no URL, or a next link that leads back to the
\* position of the request; or, in the answer to the request at position 0,
\* one of the odd links.
ServiceFaults ==
  {NoFault} \cup
  { [kind |-> f, skip |-> k] :
      f \in {"notArray", "badLink", "sameToken"}, k \in 0..DefaultPageSize }
  \cup { [kind |-> f, skip |-> 0] : f \in OddLinks }

\* The next-link URL of a page: it parses, and its query holds $skip.
NextLink(skipParam) == [type |-> "url", parses |-> TRUE, skip |-> skipParam]

Min(a, b) == IF a <= b THEN a ELSE b

\* The service answering GET $Resources/Queues?$skip=<n>&$top=<m>: the records
\* from position n on, at most m of them (DefaultPageSize without $top), and
\* a next link while records are left behind the page, whose $skip is the
\* position behind the page (a faulty service may send a link that is no
\* URL, one whose $skip is the position of the request, or one whose query
\* holds a $skip that is no position or none).  A $skip or $top that is no
\* count is a bad request.
Respond(query) ==
  LET skipN == IF query.skip = Undefined THEN IntegerValue(0)
               ELSE StringToNumber(query.skip.chars)
      topN == IF query.top = Undefined THEN IntegerValue(DefaultPageSize)
              ELSE StringToNumber(query.top.chars)
      n == skipN.whole
      m == topN.whole
      last == Min(n + m, Len(collection))
  IN  IF ~IsNaturalNumber(skipN) \/ ~IsNaturalNumber(topN) \/ m = 0
      THEN [status |-> 400, parsedBody |-> Undefined]
      ELSE IF serviceFault.kind = "notArray" /\ serviceFault.skip = n
      THEN [status |-> 200, parsedBody |-> Undefined]
      ELSE [status |-> 200,
            parsedBody |->
              [type |-> "array",
               records |-> SubSeq(collection, n + 1, last),
               nextLink |->
                 IF serviceFault.kind = "sameToken" /\ serviceFault.skip = n
                 THEN NextLink(Str(toString(n)))
                 ELSE IF n + m >= Len(collection) THEN Undefined
                 ELSE IF serviceFault.kind = "badLink" /\ serviceFault.skip = n
                 THEN [NextLink(Str(toString(n + m))) EXCEPT !.parses = FALSE]
                 ELSE IF serviceFault.kind = "wordSkip" /\ serviceFault.skip = n
                 THEN NextLink(Str(<<"a", "b", "c">>))
                 ELSE IF serviceFault.kind = "emptySkip" /\ serviceFault.skip = n
                 THEN NextLink(Str(<<>>))
                 ELSE IF serviceFault.kind = "noSkip" /\ serviceFault.skip = n
                 THEN NextLink(Null)
                 ELSE NextLink(Str(toString(n + m)))]]

(* ------------------------------------------------------ the list request *)

\* listResources: $skip and $top go into the query only when they are truthy.
listResources(options) ==
  [skip |-> IF Truthy(options.skip)
            THEN Str(NumberToString(options.skip.num)) ELSE Undefined,
   top |-> IF Truthy(options.maxCount)
           THEN Str(NumberToString(options.maxCount.num)) ELSE Undefined]

\* getMarkerFromNextLinkUrl handing on the $skip as a number.
getMarkerFromNextLinkUrl_AsNumber(url) ==
  IF url = Undefined THEN [threw |-> FALSE, value |-> Undefined]
  ELSE IF ~url.parses THEN [threw |-> TRUE, value |-> Undefined]
  ELSE [threw |-> FALSE, value |-> Num(Number(url.skip))]

\* getMarkerFromNextLinkUrl taking a link it cannot parse for no link.
getMarkerFromNextLinkUrl_Lenient(url) ==
  IF url = Undefined \/ ~url.parses THEN [threw |-> FALSE, value |-> Undefined]
  ELSE [threw |-> FALSE, value |-> url.skip]

\* getMarkerFromNextLinkUrl: undefined without a next link, else the $skip of
\* its query (null when the query has none); a link that does not parse
\* throws.
getMarkerFromNextLinkUrl(url) ==
  IF url = Undefined THEN [threw |-> FALSE, value |-> Undefined]
  ELSE IF ~url.parses THEN [threw |-> TRUE, value |-> Undefined]
  ELSE [threw |-> FALSE, value |-> url.skip]

\* buildQueue: the decoded queue of a raw record, undefined for a record it
\* cannot read.
buildQueue(raw) ==
  IF raw.wellFormed THEN [type |-> "queue", name |-> raw.name] ELSE Undefined

\* The loop giving up at the first record the decoder cannot read.
RECURSIVE DecodeAll_StopAtBad(_)
DecodeAll_StopAtBad(rawQueueArray) ==
  IF rawQueueArray = <<>> THEN <<>>
  ELSE LET queue == buildQueue(Head(rawQueueArray))
       IN  IF queue # Undefined
           THEN <<queue>> \o DecodeAll_StopAtBad(Tail(rawQueueArray))
           ELSE <<>>

\* The loop of buildListQueuesResponse: the decoded queues of the raw array,
\* in its order, the undecodable ones left out.
RECURSIVE DecodeAll(_)
DecodeAll(rawQueueArray) ==
  IF rawQueueArray = <<>> THEN <<>>
  ELSE LET queue == buildQueue(Head(rawQueueArray))
       IN  (IF queue # Undefined THEN <<queue>> ELSE <<>>)
           \o DecodeAll(Tail(rawQueueArray))

\* buildListQueuesResponse refusing a page without items.
buildListQueuesResponse_EmptyIsError(response) ==
  LET body == response.parsedBody
  IN  IF body.type # "array" \/ DecodeAll(body.records) = <<>>
      THEN [threw |-> TRUE, code |-> "PARSE_ERROR",
            items |-> <<>>, continuationToken |-> Undefined]
      ELSE [threw |-> FALSE, code |-> "none",
            items |-> DecodeAll(body.records),
            continuationToken |-> getMarkerFromNextLinkUrl(body.nextLink).value]

\* buildListQueuesResponse taking a body that is no array for an empty page.
buildListQueuesResponse_NoArrayCheck(response) ==
  LET body == response.parsedBody
  IN  IF body.type # "array"
      THEN [threw |-> FALSE, code |-> "none",
            items |-> <<>>, continuationToken |-> Undefined]
      ELSE [threw |-> FALSE, code |-> "none",
            items |-> DecodeAll(body.records),
            continuationToken |-> getMarkerFromNextLinkUrl(body.nextLink).value]

\* buildListQueuesResponse: the page of a response, or the RestError
\* PARSE_ERROR when reading the next link throws or the body is no array.
buildListQueuesResponse(response) ==
  LET body == response.parsedBody
      nextMarker == IF body.type = "array"
                    THEN getMarkerFromNextLinkUrl(body.nextLink)
                    ELSE [threw |-> TRUE, value |-> Undefined]
  IN  IF nextMarker.threw \/ body.type # "array"
      THEN [threw |-> TRUE, code |-> "PARSE_ERROR",
            items |-> <<>>, continuationToken |-> Undefined]
      ELSE [threw |-> FALSE, code |-> "none",
            items |-> DecodeAll(body.records),
            continuationToken |-> nextMarker.value]

\* listQueues: one list request and the page built from its answer; a status
\* that is no success is the transport's RestError.
listQueues(options) ==
  LET response == Respond(listResources(options))
  IN  IF response.status # 200
      THEN [threw |-> TRUE, code |-> "ServiceError",
            items |-> <<>>, continuationToken |-> Undefined]
      ELSE buildListQueuesResponse(response)

\* The check letting every number through, the negative ones too.
throwIfInvalidContinuationToken_OnlyNaN(token) ==
  ~(token = Undefined \/ (token.type = "string" /\ ~Number(token).nan))

\* The check asking for the decimal string of an integer >= 0.
throwIfInvalidContinuationToken_IntegerOnly(token) ==
  ~(token = Undefined
    \/ (/\ token.type = "string"
        /\ token.chars # <<>>
        /\ IsNaturalNumber(Number(token))))

\* throwIfInvalidContinuationToken: whether it throws for the token.
throwIfInvalidContinuationToken(token) ==
  ~(token = Undefined \/ (token.type = "string" /\ GreaterOrEqualZero(Number(token))))

(* ------------------------------------------------------------ the iterators *)

\* The continuation tokens a caller hands to byPage(): none, the counts below
\* the largest size of the collection, and values that are no count.
TokenInputs ==
  {Undefined} \cup { Str(toString(n)) : n \in 0..(MaxEntities - 1) }
  \cup { Str(<<"-", "1">>), Str(<<"a", "b", "c">>), Str(<<"1", ".", "5">>),
         Str(<<>>), Num(IntegerValue(1)) }

\* The maxPageSize a caller hands to byPage(): none, or a size other than
\* the one the service takes when there is none.
PageSizes ==
  {Undefined} \cup
  { Num(IntegerValue(n)) : n \in (1..MaxPageSize) \ {DefaultPageSize} }

\* getQueues() keeping the marker on the client: a new iterator starts where
\* the iterator before it stands.
getQueues_SharedMarker(i) ==
  /\ scans[i].kind = "none"
  /\ \A j \in ScanIds : j < i => scans[j].pc # "none"
  /\ scans' = [scans EXCEPT ![i] =
       [NoScan EXCEPT !.kind = "all", !.pc = "start",
                      !.marker = IF i > 1 THEN scans[i - 1].marker ELSE Undefined]]
  /\ UNCHANGED <<collection, serviceFault>>
  /\ UNCHANGED <<settlement, management>>

\* getQueues(): the iterator over all queues; its generator has not run yet.
getQueues(i) ==
  /\ scans[i].kind = "none"
  /\ \A j \in ScanIds : j < i => scans[j].pc # "none"
  /\ scans' = [scans EXCEPT ![i] = [NoScan EXCEPT !.kind = "all", !.pc = "start"]]
  /\ UNCHANGED <<collection, serviceFault>>
  /\ UNCHANGED <<settlement, management>>

\* byPage() checking the token and then starting its generator without it.
byPage_IgnoresToken(i, settings) ==
  /\ scans[i].kind = "none"
  /\ \A j \in ScanIds : j < i => scans[j].pc # "none"
  /\ scans' = [scans EXCEPT ![i] =
       IF throwIfInvalidContinuationToken(settings.continuationToken)
       THEN [NoScan EXCEPT !.pc = "threw",
                           !.token = settings.continuationToken,
                           !.error = "InvalidContinuationToken"]
       ELSE [NoScan EXCEPT !.kind = "page", !.pc = "start",
                           !.token = settings.continuationToken,
                           !.maxPageSize = settings.maxPageSize]]
  /\ UNCHANGED <<collection, serviceFault>>
  /\ UNCHANGED <<settlement, management>>

\* getQueues().byPage(settings): the token is checked at the call.  A token
\* that fails makes the call throw: the caller gets no iterator, and the
\* slot stays free (it keeps the token and the error of the call).  A token
\* that passes starts a page generator at it, which has not run yet.
byPage(i, settings) ==
  /\ scans[i].kind = "none"
  /\ \A j \in ScanIds : j < i => scans[j].pc # "none"
  /\ scans' = [scans EXCEPT ![i] =
       IF throwIfInvalidContinuationToken(settings.continuationToken)
       THEN [NoScan EXCEPT !.pc = "threw",
                           !.token = settings.continuationToken,
                           !.error = "InvalidContinuationToken"]
       ELSE [NoScan EXCEPT !.kind = "page", !.pc = "start",
                           !.token = settings.continuationToken,
                           !.maxPageSize = settings.maxPageSize,
                           !.marker = settings.continuationToken]]
  /\ UNCHANGED <<collection, serviceFault>>
  /\ UNCHANGED <<settlement, management>>

\* The consumer asks the iterator for its next element.
next(i) ==
  /\ scans[i].pc \in {"start", "suspended"}
  /\ ~scans[i].awaiting
  /\ scans' = [scans EXCEPT ![i].awaiting = TRUE, ![i].pulls = @ + 1]
  /\ UNCHANGED <<collection, serviceFault>>
  /\ UNCHANGED <<settlement, management>>

\* The list request of listQueuesPage leaving the marker out: every page is
\* asked for from the start.
ListOptions_NoSkip(sc) ==
  [skip |-> Num(NaN), maxCount |-> sc.maxPageSize]

\* The list request of listQueuesPage naming the token the scan was started
\* with instead of the marker of the page before.
ListOptions_StartToken(sc) ==
  [skip |-> Num(Number(sc.token)), maxCount |-> sc.maxPageSize]

\* The list request of listQueuesPage naming the page size on the first
\* request of a scan only.
ListOptions_FirstPageOnly(sc) ==
  [skip |-> Num(Number(sc.marker)),
   maxCount |-> IF sc.requests = <<>> THEN sc.maxPageSize ELSE Undefined]

\* The options of the list request of listQueuesPage.
ListOptions(sc) ==
  [skip |-> Num(Number(sc.marker)), maxCount |-> sc.maxPageSize]

\* A round of listQueuesPage that sends a failed list request once more
\* before it gives up.
FetchPage_Retries(i) ==
  LET sc == scans[i]
      listResponse == listQueues(ListOptions(sc))
      sent == Append(sc.requests, listResources(ListOptions(sc)))
  IN  /\ sc.awaiting
      /\ sc.segment = <<>>
      /\ sc.pc = "start" \/ (sc.pc = "suspended" /\ Truthy(sc.marker))
      /\ Len(sc.requests) < MaxRequests
      /\ scans' = [scans EXCEPT ![i] =
           IF listResponse.threw
           THEN [sc EXCEPT !.pc = "threw", !.awaiting = FALSE,
                           !.requests =
                              Append(sent, listResources(ListOptions(sc))),
                           !.error = listResponse.code]
           ELSE [sc EXCEPT !.pc = "suspended",
                           !.awaiting = (sc.kind = "all"),
                           !.requests = sent,
                           !.marker = listResponse.continuationToken,
                           !.segment = IF sc.kind = "all"
                                       THEN listResponse.items ELSE <<>>,
                           !.pages = Append(@,
                              [items |-> listResponse.items,
                               continuationToken |->
                                 listResponse.continuationToken])]]
      /\ UNCHANGED <<collection, serviceFault>>
      /\ UNCHANGED <<settlement, management>>

\* A round of listQueuesPage that does not wait for the consumer: the page
\* behind the marker is fetched ahead of the next().
FetchPage_Prefetch(i) ==
  LET sc == scans[i]
      listResponse == listQueues(ListOptions(sc))
      sent == Append(sc.requests, listResources(ListOptions(sc)))
  IN  /\ sc.segment = <<>>
      /\ sc.pc = "start" \/ (sc.pc = "suspended" /\ Truthy(sc.marker))
      /\ Len(sc.requests) < MaxRequests
      /\ scans' = [scans EXCEPT ![i] =
           IF listResponse.threw
           THEN [sc EXCEPT !.pc = "threw", !.awaiting = FALSE,
                           !.requests = sent, !.error = listResponse.code]
           ELSE [sc EXCEPT !.pc = "suspended",
                           !.awaiting = (sc.kind = "all"),
                           !.requests = sent,
                           !.marker = listResponse.continuationToken,
                           !.segment = IF sc.kind = "all"
                                       THEN listResponse.items ELSE <<>>,
                           !.pages = Append(@,
                              [items |-> listResponse.items,
                               continuationToken |->
                                 listResponse.continuationToken])]]
      /\ UNCHANGED <<collection, serviceFault>>
      /\ UNCHANGED <<settlement, management>>

\* A round of listQueuesPage whose items reach the consumer while the page is
\* still being read: a page that then fails to parse has yielded its records.
FetchPage_PartialPage(i) ==
  LET sc == scans[i]
      listResponse == listQueues(ListOptions(sc))
      response == Respond(listResources(ListOptions(sc)))
      sent == Append(sc.requests, listResources(ListOptions(sc)))
  IN  /\ sc.awaiting
      /\ sc.segment = <<>>
      /\ sc.pc = "start" \/ (sc.pc = "suspended" /\ Truthy(sc.marker))
      /\ Len(sc.requests) < MaxRequests
      /\ scans' = [scans EXCEPT ![i] =
           IF listResponse.threw
           THEN [sc EXCEPT !.pc = "threw", !.awaiting = FALSE,
                           !.requests = sent, !.error = listResponse.code,
                           !.items =
                              IF /\ sc.kind = "all"
                                 /\ response.status = 200
                                 /\ response.parsedBody # Undefined
                              THEN @ \o DecodeAll(response.parsedBody.records)
                              ELSE @]
           ELSE [sc EXCEPT !.pc = "suspended",
                           !.awaiting = (sc.kind = "all"),
                           !.requests = sent,
                           !.marker = listResponse.continuationToken,
                           !.segment = IF sc.kind = "all"
                                       THEN listResponse.items ELSE <<>>,
                           !.pages = Append(@,
                              [items |-> listResponse.items,
                               continuationToken |->
                                 listResponse.continuationToken])]]
      /\ UNCHANGED <<collection, serviceFault>>
      /\ UNCHANGED <<settlement, management>>

\* One round of the do-while loop of listQueuesPage: the list request at the
\* marker, the marker moved to the page's continuation token, the page
\* yielded (to the consumer of byPage(), or to the loop of listQueuesAll); a
\* request that throws ends the generator.
FetchPage(i) ==
  LET sc == scans[i]
      listResponse == listQueues(ListOptions(sc))
      sent == Append(sc.requests, listResources(ListOptions(sc)))
  IN  /\ sc.awaiting
      /\ sc.segment = <<>>
      /\ sc.pc = "start" \/ (sc.pc = "suspended" /\ Truthy(sc.marker))
      /\ Len(sc.requests) < MaxRequests
      /\ scans' = [scans EXCEPT ![i] =
           IF listResponse.threw
           THEN [sc EXCEPT !.pc = "threw", !.awaiting = FALSE,
                           !.requests = sent, !.error = listResponse.code]
           ELSE [sc EXCEPT !.pc = "suspended",
                           !.awaiting = (sc.kind = "all"),
                           !.requests = sent,
                           !.marker = listResponse.continuationToken,
                           !.segment = IF sc.kind = "all"
                                       THEN listResponse.items ELSE <<>>,
                           !.pages = Append(@,
                              [items |-> listResponse.items,
                               continuationToken |->
                                 listResponse.continuationToken])]]
      /\ UNCHANGED <<collection, serviceFault>>
      /\ UNCHANGED <<settlement, management>>

\* The loop of listQueuesPage ending after any page, whatever its marker.
ScanReturn_AnyMarker(i) ==
  LET sc == scans[i]
  IN  /\ sc.awaiting
      /\ sc.segment = <<>>
      /\ sc.pc = "suspended"
      /\ scans' = [scans EXCEPT ![i].pc = "done", ![i].awaiting = FALSE]
      /\ UNCHANGED <<collection, serviceFault>>
      /\ UNCHANGED <<settlement, management>>

\* The loop of listQueuesPage ending as well when a page carries the token
\* of the page before it.
ScanReturn_OnRepeat(i) ==
  LET sc == scans[i]
      n == Len(sc.pages)
  IN  /\ sc.awaiting
      /\ sc.segment = <<>>
      /\ sc.pc = "suspended"
      /\ \/ ~Truthy(sc.marker)
         \/ /\ n >= 2
            /\ sc.pages[n].continuationToken = sc.pages[n - 1].continuationToken
      /\ scans' = [scans EXCEPT ![i].pc = "done", ![i].awaiting = FALSE]
      /\ UNCHANGED <<collection, serviceFault>>
      /\ UNCHANGED <<settlement, management>>

\* The loop of listQueuesPage reading the marker as a number and ending
\* when that is zero or no number.
ScanReturn_NumericMarker(i) ==
  LET sc == scans[i]
  IN  /\ sc.awaiting
      /\ sc.segment = <<>>
      /\ sc.pc = "suspended"
      /\ ~TruthyNumber(Number(sc.marker))
      /\ scans' = [scans EXCEPT ![i].pc = "done", ![i].awaiting = FALSE]
      /\ UNCHANGED <<collection, serviceFault>>
      /\ UNCHANGED <<settlement, management>>

\* The loop of listQueuesPage ends on a falsy marker, and with it the
\* iterator.
ScanReturn(i) ==
  LET sc == scans[i]
  IN  /\ sc.awaiting
      /\ sc.segment = <<>>
      /\ sc.pc = "suspended"
      /\ ~Truthy(sc.marker)
      /\ scans' = [scans EXCEPT ![i].pc = "done", ![i].awaiting = FALSE]
      /\ UNCHANGED <<collection, serviceFault>>
      /\ UNCHANGED <<settlement, management>>

\* listQueuesPage resumed by a next(): another round, or the end.
listQueuesPage(i) == FetchPage(i) \/ ScanReturn(i)

\* listQueuesAll yielding the first item of a page and dropping the others.
listQueuesAll_FirstOfPage(i) ==
  LET sc == scans[i]
  IN  /\ sc.kind = "all"
      /\ sc.awaiting
      /\ sc.segment # <<>>
      /\ scans' = [scans EXCEPT ![i].items = Append(@, Head(sc.segment)),
                                ![i].segment = <<>>,
                                ![i].awaiting = FALSE]
      /\ UNCHANGED <<collection, serviceFault>>
      /\ UNCHANGED <<settlement, management>>

\* listQueuesAll: `yield* segment` hands the consumer the next item of the
\* page in hand.
listQueuesAll(i) ==
  LET sc == scans[i]
  IN  /\ sc.kind = "all"
      /\ sc.awaiting
      /\ sc.segment # <<>>
      /\ scans' = [scans EXCEPT ![i].items = Append(@, Head(sc.segment)),
                                ![i].segment = Tail(sc.segment),
                                ![i].awaiting = FALSE]
      /\ UNCHANGED <<collection, serviceFault>>
      /\ UNCHANGED <<settlement, management>>

(* ----------------------------------------------- specification, list side *)

\* A collection at the service and no iterator yet; no settlement goes on.
PageInit ==
  /\ usesSessions = FALSE
  /\ now = 0
  /\ srv = [s \in MsgIds |-> NoServerMsg]
  /\ receivers = [r \in ReceiverIds |-> "unopened"]
  /\ msgs = [o \in ObjIds |-> NoObj]
  /\ nextObj = 0
  /\ result = NoResult
  /\ inflight = <<>>
  /\ NoManagement
  /\ collection \in Collections
  /\ serviceFault \in ServiceFaults
  /\ scans = [i \in ScanIds |-> NoScan]

PageNext ==
  \/ \E i \in ScanIds : getQueues(i)
  \/ \E i \in ScanIds, token \in TokenInputs, size \in PageSizes :
       byPage(i, [continuationToken |-> token, maxPageSize |-> size])
  \/ \E i \in ScanIds : next(i)
  \/ \E i \in ScanIds : listQueuesPage(i)
  \/ \E i \in ScanIds : listQueuesAll(i)

PageSpec == PageInit /\ [][PageNext]_vars

PageTypeOK ==
  /\ collection \in Collections
  /\ serviceFault \in ServiceFaults
  /\ \A i \in ScanIds :
       /\ scans[i].kind \in {"none", "all", "page"}
       /\ scans[i].pc \in {"none", "start", "suspended", "done", "threw"}
       /\ scans[i].awaiting \in BOOLEAN
       /\ Len(scans[i].requests) <= MaxRequests
       /\ Len(scans[i].pages) <= Len(scans[i].requests)

(* ------------------------------------- specification, the client as a whole *)

\* No settlement goes on: no message was sent, no receiver created.
NoSettlement ==
  /\ now = 0
  /\ srv = [s \in MsgIds |-> NoServerMsg]
  /\ receivers = [r \in ReceiverIds |-> "unopened"]
  /\ msgs = [o \in ObjIds |-> NoObj]
  /\ nextObj = 0
  /\ result = NoResult
  /\ inflight = <<>>
  /\ NoManagement

\* A caller that either settles messages of an entity or lists the queues:
\* the two components share no state, and a run uses one of them.
ClientInit == Init \/ PageInit

ClientNext ==
  \/ NoPaging /\ Next
  \/ NoSettlement /\ PageNext

ClientSpec == ClientInit /\ [][ClientNext]_vars

(* ----------------------------------------------------- claims, list side *)

\* ceil(n / p) for p >= 1.
Ceil(n, p) == (n + p - 1) \div p

\* The items of a sequence of pages, in order.
RECURSIVE Flatten(_)
Flatten(pages) ==
  IF pages = <<>> THEN <<>> ELSE Head(pages).items \o Flatten(Tail(pages))

\* Every record of the collection is well-formed.
AllWellFormed == \A k \in 1..Len(collection) : collection[k].wellFormed

\* A scan from the start of the collection: the iterator of getQueues(), or
\* one of byPage() without a continuation token.
FreshScan(sc) ==
  sc.kind = "all" \/ (sc.kind = "page" /\ sc.token = Undefined)

\* The page size of a scan: maxPageSize, or the service's when there is none
\* (getQueues() passes none).
PageSizeOf(sc) ==
  IF sc.maxPageSize = Undefined THEN DefaultPageSize
  ELSE sc.maxPageSize.num.whole

\* A scan ended on a page without continuation token: every page before the
\* last carried a token, the last carried none.
EndedOnAbsentToken(sc) ==
  /\ sc.pages # <<>>
  /\ \A k \in 1..Len(sc.pages) :
       Truthy(sc.pages[k].continuationToken) = (k < Len(sc.pages))

\* C12 as the specification states it: a finished listAll over N well-formed
\* records has yielded N items with exactly ceil(N/P) list requests.
C12_Original ==
  \A i \in ScanIds :
    (/\ scans[i].kind = "all"
     /\ scans[i].pc = "done"
     /\ serviceFault = NoFault
     /\ AllWellFormed) =>
       /\ Len(scans[i].items) = Len(collection)
       /\ Len(scans[i].requests) = Ceil(Len(collection), PageSizeOf(scans[i]))

\* C12: a finished scan from the start over N records (the service answering
\* soundly) has yielded the decodable records in their order (N items when
\* all are well-formed), has sent ceil(N/P) list requests, but one for the
\* empty collection (the loop asks before it tests), and ended on the page
\* without a continuation token.
C12_ListAllTerminates ==
  \A i \in ScanIds :
    (/\ FreshScan(scans[i])
     /\ scans[i].pc = "done"
     /\ serviceFault = NoFault) =>
       LET sc == scans[i]
           N == Len(collection)
       IN  /\ Flatten(sc.pages) = DecodeAll(collection)
           /\ sc.kind = "all" => sc.items = DecodeAll(collection)
           /\ AllWellFormed => Len(Flatten(sc.pages)) = N
           /\ Len(sc.requests) =
                IF N = 0 THEN 1 ELSE Ceil(N, PageSizeOf(sc))
           /\ Len(sc.pages) = Len(sc.requests)
           /\ EndedOnAbsentToken(sc)

\* C12 witness: getQueues() has run to its end over a collection of more
\* records than a page holds, all of them yielded.
C12_Witness ==
  \E i \in ScanIds :
    /\ scans[i].kind = "all"
    /\ scans[i].pc = "done"
    /\ serviceFault = NoFault
    /\ Len(collection) > DefaultPageSize
    /\ Len(scans[i].items) = Len(collection)
    /\ Len(scans[i].requests) = Ceil(Len(collection), DefaultPageSize)

\* Whether sequence a is the beginning of sequence b.
IsPrefix(a, b) == Len(a) <= Len(b) /\ a = SubSeq(b, 1, Len(a))

\* C13: two iterators of getQueues() over the same collection yield the same
\* items: at every moment the items of one are the beginning of the items of
\* the other, the first request of each names no $skip (the service starts
\* at position 0), and when both have ended their items and their requests
\* are the same.
C13_Restartable ==
  \A i, j \in ScanIds :
    (i # j /\ scans[i].kind = "all" /\ scans[j].kind = "all") =>
      /\ IsPrefix(scans[i].items, scans[j].items)
           \/ IsPrefix(scans[j].items, scans[i].items)
      /\ scans[i].requests # <<>> => scans[i].requests[1].skip = Undefined
      /\ (scans[i].pc = "done" /\ scans[j].pc = "done") =>
           /\ scans[i].items = scans[j].items
           /\ scans[i].requests = scans[j].requests

\* C13 witness: two iterators of getQueues() have both ended, each having
\* yielded the same items from more than one page.
C13_Witness ==
  \E i, j \in ScanIds :
    /\ i # j
    /\ scans[i].kind = "all" /\ scans[i].pc = "done"
    /\ scans[j].kind = "all" /\ scans[j].pc = "done"
    /\ Len(scans[i].requests) > 1
    /\ Len(scans[i].items) > 1
    /\ scans[i].items = scans[j].items

\* The service forms its next links as the wire contract says (it may still
\* send a body that is no array).
TokensByContract == serviceFault.kind \in {"none", "notArray"}

\* Every next link that parses carries the position behind its page.
TokensLeadOn == serviceFault.kind \in {"none", "notArray", "badLink"}

\* The count a continuation token stands for.
TokenValue(t) == StringToNumber(t.chars).whole

\* C14: in one scan every continuation token a page carries is the decimal
\* string of an integer >= 0, and the token of each page is greater than the
\* token of the page before it.
C14_MarkerMonotone ==
  TokensByContract =>
    \A i \in ScanIds : \A k \in 1..Len(scans[i].pages) :
      LET t == scans[i].pages[k].continuationToken
      IN  t # Undefined =>
            /\ t.type = "string"
            /\ IsNaturalNumber(StringToNumber(t.chars))
            /\ k > 1 =>
                 /\ scans[i].pages[k - 1].continuationToken # Undefined
                 /\ TokenValue(scans[i].pages[k - 1].continuationToken)
                      < TokenValue(t)

\* C14 witness: a scan has yielded two pages that both carry a token, the
\* second token the greater one.
C14_Witness ==
  \E i \in ScanIds :
    /\ Len(scans[i].pages) >= 2
    /\ scans[i].pages[1].continuationToken # Undefined
    /\ scans[i].pages[2].continuationToken # Undefined
    /\ TokenValue(scans[i].pages[1].continuationToken)
         < TokenValue(scans[i].pages[2].continuationToken)

\* byPage() was called with token t for slot i and threw: no iterator, no
\* next() and no list request.
ByPageThrew(i, t) ==
  /\ scans[i].kind = "none"
  /\ scans[i].pc = "threw"
  /\ scans[i].token = t
  /\ scans[i].error = "InvalidContinuationToken"
  /\ scans[i].pulls = 0
  /\ scans[i].requests = <<>>

\* byPage() was called with token t for slot i and returned an iterator.
ByPageReturned(i, t) == scans[i].kind = "page" /\ scans[i].token = t

\* C15: byPage() called with the token "-1" or "abc" throws the invalid
\* continuation token error at the call: the caller gets no iterator, no
\* next() was needed and no list request was sent.
C15_InvalidTokenThrowsAtCall ==
  \A i \in ScanIds :
    \A t \in {Str(<<"-", "1">>), Str(<<"a", "b", "c">>)} :
      /\ ~ByPageReturned(i, t)
      /\ scans[i].token = t => ByPageThrew(i, t)

\* C15 witness: byPage() has thrown for "-1" and for "abc".
C15_Witness ==
  \E i, j \in ScanIds :
    /\ ByPageThrew(i, Str(<<"-", "1">>))
    /\ ByPageThrew(j, Str(<<"a", "b", "c">>))

\* Whether chars is a decimal literal of a number >= 0: digits with at most
\* one point and at least one digit (a sign only in front of zero).
NonNegativeLiteral(chars) ==
  LET x == StringToNumber(chars)
  IN  chars # <<>> /\ ~x.nan /\ (~x.neg \/ (x.whole = 0 /\ x.frac = <<>>))

\* C16 as the specification states it: byPage() takes a token exactly when
\* it is absent or the string of an integer >= 0.
C16_Original ==
  \A i \in ScanIds :
    LET t == scans[i].token
    IN  (ByPageReturned(i, t) \/ ByPageThrew(i, t)) =>
          (ByPageReturned(i, t) <=>
             \/ t = Undefined
             \/ /\ t.type = "string"
                /\ NonNegativeLiteral(t.chars)
                /\ StringToNumber(t.chars).frac = <<>>)

\* C16: byPage() takes a token exactly when it is absent, or a string that
\* is empty or the literal of a number >= 0, integer or not: "1.5" and ""
\* pass, "-1", "abc" and a token that is no string are thrown out before
\* any use.
C16_TokenAccepted ==
  \A i \in ScanIds :
    LET t == scans[i].token
    IN  /\ (ByPageReturned(i, t) \/ ByPageThrew(i, t)) =>
             (ByPageReturned(i, t) <=>
                \/ t = Undefined
                \/ /\ t.type = "string"
                   /\ t.chars = <<>> \/ NonNegativeLiteral(t.chars))
        /\ t \in {Str(<<"1", ".", "5">>), Str(<<>>)} => ByPageReturned(i, t)
        /\ t \in {Str(<<"-", "1">>), Str(<<"a", "b", "c">>), Num(IntegerValue(1))}
             => ByPageThrew(i, t)

\* C16 witness: byPage() has returned an iterator for "1.5", whose first
\* request went out with $skip=1.5, and has thrown for a token that is the
\* number 1.
C16_Witness ==
  \E i, j \in ScanIds :
    /\ ByPageReturned(i, Str(<<"1", ".", "5">>))
    /\ scans[i].requests # <<>>
    /\ scans[i].requests[1].skip = Str(<<"1", ".", "5">>)
    /\ ByPageThrew(j, Num(IntegerValue(1)))

\* The raw records the service put into the body that answers request q.
RawPage(q) ==
  LET n == IF q.skip = Undefined THEN 0 ELSE StringToNumber(q.skip.chars).whole
      m == IF q.top = Undefined THEN DefaultPageSize
           ELSE StringToNumber(q.top.chars).whole
  IN  SubSeq(collection, n + 1, Min(n + m, Len(collection)))

\* The names of the well-formed records of a raw array, in its order.
WellFormedNames(raw) ==
  LET kept == SelectSeq(raw, LAMBDA r : r.wellFormed)
  IN  [k \in 1..Len(kept) |-> kept[k].name]

\* The names of the items of a page, in its order.
ItemNames(page) == [k \in 1..Len(page.items) |-> page.items[k].name]

\* C17: every page a scan has yielded holds exactly the records of its raw
\* array that the decoder could read, in the order of the array, and a
\* record it could not read raises no error: a scan fails to parse only when
\* the body was no array or its next link no URL.
C17_MalformedRecordSkipped ==
  \A i \in ScanIds :
    /\ \A k \in 1..Len(scans[i].pages) :
         ItemNames(scans[i].pages[k]) = WellFormedNames(RawPage(scans[i].requests[k]))
    /\ scans[i].error = "PARSE_ERROR" =>
         serviceFault.kind \in {"notArray", "badLink"}

\* C17 witness: a page built from a raw array of one well-formed and one
\* undecodable record has been yielded with exactly one item.
C17_Witness ==
  \E i \in ScanIds : \E k \in 1..Len(scans[i].pages) :
    LET raw == RawPage(scans[i].requests[k])
    IN  /\ Len(raw) = 2
        /\ \E a, b \in 1..2 : a # b /\ raw[a].wellFormed /\ ~raw[b].wellFormed
        /\ Len(scans[i].pages[k].items) = 1
        /\ scans[i].error = "none"

\* Request q is one the service answers with a body that is no array.
HitsNotArray(q) ==
  LET skipN == IF q.skip = Undefined THEN IntegerValue(0)
               ELSE StringToNumber(q.skip.chars)
  IN  /\ serviceFault.kind = "notArray"
      /\ IsNaturalNumber(skipN)
      /\ skipN.whole = serviceFault.skip

\* C18: a list request answered with a body that is no array is the last
\* request of its scan: the scan has thrown the RestError PARSE_ERROR, the
\* response has given no page (the pages are those of the requests before
\* it) and no item (the items are items of those pages).
C18_NotArrayIsParseError ==
  \A i \in ScanIds : \A k \in 1..Len(scans[i].requests) :
    HitsNotArray(scans[i].requests[k]) =>
      /\ k = Len(scans[i].requests)
      /\ scans[i].pc = "threw"
      /\ scans[i].error = "PARSE_ERROR"
      /\ ~scans[i].awaiting
      /\ Len(scans[i].pages) = k - 1
      /\ scans[i].kind = "all" => IsPrefix(scans[i].items, Flatten(scans[i].pages))

\* C18 witness: a scan has yielded its first page and has then thrown
\* PARSE_ERROR on the answer to its second request.
C18_Witness ==
  \E i \in ScanIds :
    /\ scans[i].pc = "threw"
    /\ scans[i].error = "PARSE_ERROR"
    /\ Len(scans[i].requests) = 2
    /\ HitsNotArray(scans[i].requests[2])
    /\ Len(scans[i].pages) = 1

\* Request q is answered with a sound page that has no item the decoder can
\* read and no next link: it asks for records from a position on behind
\* which nothing decodable and nothing further is left.
EmptyLastPage(q) ==
  LET skipN == IF q.skip = Undefined THEN IntegerValue(0)
               ELSE StringToNumber(q.skip.chars)
      m == IF q.top = Undefined THEN DefaultPageSize
           ELSE StringToNumber(q.top.chars).whole
  IN  /\ TokensByContract
      /\ ~HitsNotArray(q)
      /\ IsNaturalNumber(skipN)
      /\ skipN.whole + m >= Len(collection)
      /\ WellFormedNames(RawPage(q)) = <<>>

\* C19: a page with zero items and no continuation token ends the scan
\* without an error: its request is the last one of the scan, the empty page
\* is yielded by the page generator, the scan stands at its yield or is done
\* (getQueues() hands its consumer nothing for that page: the next() that
\* fetched it is still to be answered, with the end), and getQueues() has
\* then yielded the items of the pages before it and nothing else.
C19_EmptyPageEndsCleanly ==
  \A i \in ScanIds : \A k \in 1..Len(scans[i].requests) :
    EmptyLastPage(scans[i].requests[k]) =>
      /\ k = Len(scans[i].requests)
      /\ scans[i].error = "none"
      /\ scans[i].pc \in {"suspended", "done"}
      /\ Len(scans[i].pages) = k
      /\ scans[i].pages[k].items = <<>>
      /\ scans[i].pages[k].continuationToken = Undefined
      /\ (scans[i].kind = "all" /\ scans[i].pc = "suspended") => scans[i].awaiting
      /\ (scans[i].kind = "all" /\ scans[i].pc = "done") =>
           scans[i].items = Flatten(scans[i].pages)

\* C19 witness: getQueues() over the empty collection is done with no item,
\* and a byPage() scan is done having yielded one page, an empty one.
C19_Witness ==
  \E i, j \in ScanIds :
    /\ scans[i].kind = "all" /\ scans[i].pc = "done"
    /\ scans[i].items = <<>> /\ scans[i].error = "none"
    /\ scans[j].kind = "page" /\ scans[j].pc = "done"
    /\ Len(scans[j].pages) = 1
    /\ scans[j].pages[1].items = <<>>
    /\ scans[j].error = "none"

\* The position a list request asks for: the number in its $skip, and 0 for
\* a request without $skip (the service starts at the first record).
SkipValue(q) ==
  IF q.skip = Undefined THEN IntegerValue(0) ELSE StringToNumber(q.skip.chars)

\* Scan j is a byPage() scan started with the continuation token that scan i
\* got on its page k, and with the page size of scan i.
ResumesAt(j, i, k) ==
  /\ i # j
  /\ scans[j].kind = "page"
  /\ k \in 1..Len(scans[i].pages)
  /\ Truthy(scans[i].pages[k].continuationToken)
  /\ scans[j].token = scans[i].pages[k].continuationToken
  /\ PageSizeOf(scans[j]) = PageSizeOf(scans[i])

\* C20: a byPage() scan started with a token that an earlier scan got on its
\* page k goes on where that page ended: its first request asks for the
\* position the token names (it carries the token as $skip, unless a faulty
\* service made it a token for the position 0), and its pages are the pages
\* the earlier scan yielded after page k (as far as both have come; the same
\* pages when both have ended).
C20_ResumeFromToken ==
  \A i, j \in ScanIds : \A k \in 1..Len(scans[i].pages) :
    ResumesAt(j, i, k) =>
      LET rest == SubSeq(scans[i].pages, k + 1, Len(scans[i].pages))
      IN  /\ scans[j].requests # <<>> =>
               /\ SkipValue(scans[j].requests[1]) = Number(scans[j].token)
               /\ TokensLeadOn =>
                    scans[j].requests[1].skip = scans[j].token
          /\ IsPrefix(scans[j].pages, rest) \/ IsPrefix(rest, scans[j].pages)
          /\ (scans[i].pc = "done" /\ scans[j].pc = "done") =>
               scans[j].pages = rest

\* C20 witness: a scan has ended after three pages, and a byPage() scan
\* started with the token of its first page has ended having yielded its
\* second and third page.
C20_Witness ==
  \E i, j \in ScanIds :
    /\ ResumesAt(j, i, 1)
    /\ scans[i].pc = "done"
    /\ scans[j].pc = "done"
    /\ Len(scans[i].pages) = 3
    /\ scans[j].pages = SubSeq(scans[i].pages, 2, 3)

\* The scan has ended: its loop returned, or a list request of it threw.
Ended(sc) == sc.pc \in {"done", "threw"}

\* C21: over the same collection the items yielded by the iterator of
\* getQueues() and the pages yielded by byPage() without continuation token,
\* laid end to end, are the same sequence: at every moment one is the
\* beginning of the other, and they are equal when both scans have run to
\* their end (whatever the page size of byPage(), as long as the tokens of
\* the service lead on; with the same page size against any service).  With
\* no maxPageSize either, the two send the same list requests and end the
\* same way.
C21_ListAllIsConcatOfPages ==
  \A i, j \in ScanIds :
    (/\ scans[i].kind = "all"
     /\ scans[j].kind = "page"
     /\ scans[j].token = Undefined) =>
       LET all == scans[i]
           page == scans[j]
       IN  /\ (page.maxPageSize = Undefined
                 \/ TokensLeadOn) =>
                /\ IsPrefix(all.items, Flatten(page.pages))
                     \/ IsPrefix(Flatten(page.pages), all.items)
                /\ (all.pc = "done" /\ page.pc = "done") =>
                     all.items = Flatten(page.pages)
           /\ page.maxPageSize = Undefined =>
                /\ IsPrefix(all.requests, page.requests)
                     \/ IsPrefix(page.requests, all.requests)
                /\ (Ended(all) /\ Ended(page)) =>
                     /\ all.pc = page.pc
                     /\ all.error = page.error
                     /\ all.requests = page.requests
                     /\ all.pages = page.pages
                     /\ all.items = Flatten(page.pages)

\* C21 witness: getQueues() and byPage() have both run to their end over a
\* collection of more than one page, the pages of byPage() holding the items
\* getQueues() yielded, one page of more than one item.
C21_Witness ==
  \E i, j \in ScanIds :
    /\ scans[i].kind = "all" /\ scans[i].pc = "done"
    /\ scans[j].kind = "page" /\ scans[j].pc = "done"
    /\ scans[j].token = Undefined
    /\ Len(scans[j].pages) > 1
    /\ Len(scans[j].pages[1].items) > 1
    /\ scans[i].items = Flatten(scans[j].pages)
    /\ Len(scans[i].items) = Len(collection)

\* Request q is one the service answers with an array whose next link is no
\* URL.
HitsBadLink(q) ==
  LET skipN == IF q.skip = Undefined THEN IntegerValue(0)
               ELSE StringToNumber(q.skip.chars)
      m == IF q.top = Undefined THEN DefaultPageSize
           ELSE StringToNumber(q.top.chars).whole
  IN  /\ serviceFault.kind = "badLink"
      /\ IsNaturalNumber(skipN)
      /\ skipN.whole = serviceFault.skip
      /\ skipN.whole + m < Len(collection)

\* The answer to request q does not parse.
FailsToParse(q) == HitsNotArray(q) \/ HitsBadLink(q)

\* C22: the items the iterator of getQueues() has yielded, followed by the
\* items of the page in hand still to be yielded, are the items of the pages
\* it has fetched and parsed, in order; every request but one that threw has
\* given a page; and a page that fails to parse is the end of the scan and
\* contributes nothing: the items are those of the pages before it, none of
\* them a record of the failed page.
C22_NoPartialPage ==
  \A i \in ScanIds :
    scans[i].kind = "all" =>
      LET sc == scans[i]
      IN  /\ sc.items \o sc.segment = Flatten(sc.pages)
          /\ Len(sc.pages) =
               Len(sc.requests) - (IF sc.pc = "threw" THEN 1 ELSE 0)
          /\ \A k \in 1..Len(sc.requests) :
               FailsToParse(sc.requests[k]) =>
                 /\ k = Len(sc.requests)
                 /\ sc.pc = "threw"
                 /\ sc.error = "PARSE_ERROR"
                 /\ sc.segment = <<>>
                 /\ sc.items = Flatten(SubSeq(sc.pages, 1, k - 1))
                 /\ \A x \in 1..Len(sc.items),
                       y \in 1..Len(RawPage(sc.requests[k])) :
                       sc.items[x].name # RawPage(sc.requests[k])[y].name

\* C22 witness: the first page of getQueues(), an array of two well-formed
\* records with a next link that is no URL, has failed to parse: the
\* consumer's first next() has thrown, and no item has been yielded.
C22_Witness ==
  \E i \in ScanIds :
    /\ scans[i].kind = "all"
    /\ scans[i].pc = "threw"
    /\ scans[i].pulls = 1
    /\ Len(scans[i].requests) = 1
    /\ HitsBadLink(scans[i].requests[1])
    /\ Len(RawPage(scans[i].requests[1])) = 2
    /\ \A y \in 1..2 : RawPage(scans[i].requests[1])[y].wellFormed
    /\ scans[i].items = <<>>
    /\ scans[i].pages = <<>>

\* The pages of a scan but the last one.
EarlierPages(sc) == SubSeq(sc.pages, 1, Len(sc.pages) - 1)

\* C23: pages are fetched on demand.  A byPage() iterator has sent exactly
\* one list request for each next() that has been answered with a page or an
\* error; the iterator of getQueues() has answered each next() with one item
\* or the end, and has yielded every item of the pages before the last one
\* it fetched, so at most one fetched page waits to be consumed; and while
\* no next() is pending the generator cannot move: no request is sent and no
\* item is yielded.
C23_PagesOnDemand ==
  \A i \in ScanIds :
    LET sc == scans[i]
    IN  /\ sc.kind = "page" =>
             Len(sc.requests) = sc.pulls - (IF sc.awaiting THEN 1 ELSE 0)
                                         - (IF sc.pc = "done" THEN 1 ELSE 0)
        /\ sc.kind = "all" =>
             /\ IsPrefix(Flatten(EarlierPages(sc)), sc.items)
             /\ sc.pulls = Len(sc.items) + (IF sc.awaiting THEN 1 ELSE 0)
                                         + (IF Ended(sc) THEN 1 ELSE 0)
        /\ ~sc.awaiting => ~ENABLED (listQueuesPage(i) \/ listQueuesAll(i))

\* C23 witness: a consumer of byPage() has taken the first page and stopped
\* while the page carried a token: one request has been sent and nothing is
\* pending; a consumer of getQueues() has pulled one item more than the
\* first page holds, and only then has the second request been sent.
C23_Witness ==
  \E i, j \in ScanIds :
    /\ scans[i].kind = "page"
    /\ scans[i].pc = "suspended"
    /\ ~scans[i].awaiting
    /\ Truthy(scans[i].marker)
    /\ scans[i].pulls = 1
    /\ Len(scans[i].requests) = 1
    /\ scans[j].kind = "all"
    /\ Len(scans[j].pages) = 2
    /\ Len(scans[j].pages[1].items) = DefaultPageSize
    /\ scans[j].pulls = DefaultPageSize + 1
    /\ Len(scans[j].requests) = 2

\* A list request of the scan has failed: the service refused it, or its
\* answer did not parse.
FetchFailed(sc) == sc.pc = "threw" /\ sc.kind # "none"

\* C28: no call is retried.  A scan whose list request failed has ended with
\* the error of that request, which is its last request and answered the
\* pending next(); every other request of the scan gave a page, so the failed
\* fetch cost exactly one request, and the generator sends nothing
\* afterwards; an iterator of byPage() has sent one request for each next()
\* it answered.  A byPage() call refused by the token check has sent no
\* request.  A call on a received message that has returned has sent exactly
\* one request, and none when its guard refused it.
C28_NoRetry ==
  /\ \A i \in ScanIds :
       LET sc == scans[i]
       IN  /\ FetchFailed(sc) =>
                /\ sc.error \in {"ServiceError", "PARSE_ERROR"}
                /\ ~sc.awaiting
                /\ Len(sc.requests) = Len(sc.pages) + 1
                /\ sc.kind = "page" => Len(sc.requests) = sc.pulls
                /\ ~ENABLED listQueuesPage(i)
           /\ ~FetchFailed(sc) => Len(sc.requests) = Len(sc.pages)
           /\ (sc.kind = "none" /\ sc.pc = "threw") =>
                /\ sc.error = "InvalidContinuationToken"
                /\ sc.requests = <<>>
  /\ result.op \in Operations =>
       result.requests =
         IF result.outcome \in {"LinkSevered", "InvalidOperation"} THEN 0 ELSE 1

\* C28 witness: an iterator of byPage() has yielded one page and failed on
\* its second request: two next(), two requests, one page, the error with
\* the caller.
C28_Witness ==
  \E i \in ScanIds :
    /\ scans[i].kind = "page"
    /\ scans[i].pc = "threw"
    /\ scans[i].error = "PARSE_ERROR"
    /\ scans[i].pulls = 2
    /\ Len(scans[i].requests) = 2
    /\ Len(scans[i].pages) = 1

\* C29: in one scan the first request asks for position 0 when the scan was
\* started without a token (it names no $skip) and for the number of the
\* token given to byPage() otherwise; every later request asks for the number
\* of the continuation token of the page before it (for position 0 when that
\* token is no number: listResources leaves $skip out); and, the service forming
\* its tokens as the wire contract says, each later request carries that
\* token as its $skip and asks for a position behind the one of the request
\* before it.
C29_SkipChain ==
  \A i \in ScanIds : \A k \in 1..Len(scans[i].requests) :
    LET sc == scans[i]
        q == sc.requests[k]
    IN  /\ (k = 1 /\ sc.token = Undefined) =>
             (q.skip = Undefined /\ SkipValue(q) = IntegerValue(0))
        /\ (k = 1 /\ sc.token # Undefined) => SkipValue(q) = Number(sc.token)
        /\ k > 1 =>
             /\ Truthy(sc.pages[k - 1].continuationToken)
             /\ SkipValue(q) =
                  IF Number(sc.pages[k - 1].continuationToken).nan
                  THEN IntegerValue(0)
                  ELSE Number(sc.pages[k - 1].continuationToken)
             /\ TokensLeadOn =>
                  /\ q.skip = sc.pages[k - 1].continuationToken
                  /\ IsNaturalNumber(SkipValue(sc.requests[k - 1]))
                  /\ IsNaturalNumber(SkipValue(q))
                  /\ SkipValue(sc.requests[k - 1]).whole < SkipValue(q).whole

\* C29 witness: a scan from the start has sent three requests, for the
\* positions 0, 1 and 2, and a byPage() scan started with the token "1" has
\* sent its first request for position 1.
C29_Witness ==
  \E i, j \in ScanIds :
    /\ scans[i].token = Undefined
    /\ Len(scans[i].requests) = 3
    /\ scans[i].requests[1].skip = Undefined
    /\ scans[i].requests[2].skip = Str(<<"1">>)
    /\ scans[i].requests[3].skip = Str(<<"2">>)
    /\ scans[j].token = Str(<<"1">>)
    /\ scans[j].requests # <<>>
    /\ scans[j].requests[1].skip = Str(<<"1">>)

\* Request q is one the service answers with a next link that leads back to
\* the position q asks for.
HitsSameToken(q) ==
  /\ serviceFault.kind = "sameToken"
  /\ IsNaturalNumber(SkipValue(q))
  /\ SkipValue(q).whole = serviceFault.skip

\* C30: a continuation token that does not advance is not noticed.  Once a
\* scan has sent a request the service answers with a token for the same
\* position, every request after it asks for that position again and gets
\* the same page and token; the scan raises no error and never ends: its
\* generator stands at the yield with that token as its marker, so the loop
\* goes round again at every next() that finds the page in hand used up.
C30_RepeatedTokenNotDetected ==
  \A i \in ScanIds : \A k \in 1..Len(scans[i].requests) :
    HitsSameToken(scans[i].requests[k]) =>
      LET sc == scans[i]
      IN  /\ sc.pc = "suspended"
          /\ sc.error = "none"
          /\ Len(sc.pages) = Len(sc.requests)
          /\ Truthy(sc.marker)
          /\ sc.marker = Str(toString(serviceFault.skip))
          /\ \A j \in k..Len(sc.requests) :
               /\ SkipValue(sc.requests[j]) = SkipValue(sc.requests[k])
               /\ sc.pages[j] = sc.pages[k]
               /\ sc.pages[j].continuationToken = sc.marker

\* C30 witness: getQueues() and byPage() against a service that keeps
\* answering with the token of the position asked for: each has sent as many
\* requests as a scan is followed for, more than the collection has records,
\* the last ones for the same position, and neither has ended.
C30_Witness ==
  \E i, j \in ScanIds :
    /\ scans[i].kind = "all"
    /\ scans[j].kind = "page"
    /\ \A x \in {i, j} :
         /\ Len(scans[x].requests) = MaxRequests
         /\ MaxRequests > Len(collection) + 1
         /\ HitsSameToken(scans[x].requests[MaxRequests - 1])
         /\ HitsSameToken(scans[x].requests[MaxRequests])
         /\ scans[x].pc = "suspended"
         /\ scans[x].error = "none"

\* Request q is one the service answers with a next link that parses as a
\* URL and carries no position (one of the odd links).
HitsOddLink(q) ==
  LET m == IF q.top = Undefined THEN DefaultPageSize
           ELSE StringToNumber(q.top.chars).whole
  IN  /\ serviceFault.kind \in OddLinks
      /\ IsNaturalNumber(SkipValue(q))
      /\ SkipValue(q).whole = serviceFault.skip
      /\ SkipValue(q).whole + m < Len(collection)

\* What the $skip of an odd link reads as.
OddToken ==
  IF serviceFault.kind = "wordSkip" THEN Str(<<"a", "b", "c">>)
  ELSE IF serviceFault.kind = "emptySkip" THEN Str(<<>>)
  ELSE Null

\* C31: a list request answered with an array whose next link cannot be
\* parsed as a URL fails with the RestError PARSE_ERROR: it is the last
\* request of its scan, the error has answered the pending next(), the
\* response has given no page (the pages are those of the requests before it,
\* each of which carried a token) and no token (the marker is the one the
\* request was sent with), and the generator, having thrown, sends nothing
\* further.  A next link that parses as a URL is not examined further: when
\* its $skip is a word, empty or missing, the request succeeds and its page is
\* yielded with that value (null when missing) as its continuation token.
C31_BadNextLinkIsParseError ==
  \A i \in ScanIds : \A k \in 1..Len(scans[i].requests) :
    LET sc == scans[i]
    IN  /\ HitsBadLink(sc.requests[k]) =>
              /\ k = Len(sc.requests)
              /\ sc.pc = "threw"
              /\ sc.error = "PARSE_ERROR"
              /\ ~sc.awaiting
              /\ Len(sc.pages) = k - 1
              /\ \A j \in 1..Len(sc.pages) :
                   Truthy(sc.pages[j].continuationToken)
              /\ sc.marker = IF k = 1 THEN sc.token
                             ELSE sc.pages[k - 1].continuationToken
              /\ ~ENABLED next(i)
        /\ HitsOddLink(sc.requests[k]) =>
              /\ sc.error = "none"
              /\ sc.pc # "threw"
              /\ Len(sc.pages) >= k
              /\ sc.pages[k].continuationToken = OddToken
              /\ ItemNames(sc.pages[k]) = WellFormedNames(RawPage(sc.requests[k]))

\* C31 as stated: every list request answered with a next link from which no
\* position can be read, be it no URL or a URL whose $skip is a word, fails
\* with PARSE_ERROR.
C31_Original ==
  \A i \in ScanIds : \A k \in 1..Len(scans[i].requests) :
    (\/ HitsBadLink(scans[i].requests[k])
     \/ (HitsOddLink(scans[i].requests[k]) /\ serviceFault.kind = "wordSkip"))
      => (scans[i].pc = "threw" /\ scans[i].error = "PARSE_ERROR")

\* C31 witness: a byPage() scan has yielded its first page and has thrown
\* PARSE_ERROR on its second request, whose answer held a record and a next
\* link that is no URL.
C31_Witness ==
  \E i \in ScanIds :
    /\ scans[i].kind = "page"
    /\ scans[i].pc = "threw"
    /\ scans[i].error = "PARSE_ERROR"
    /\ Len(scans[i].requests) = 2
    /\ HitsBadLink(scans[i].requests[2])
    /\ RawPage(scans[i].requests[2]) # <<>>
    /\ Len(scans[i].pages) = 1
    /\ scans[i].pulls = 2

\* A scan running alone, as the values listQueuesPage works on: the marker,
\* and the list requests sent and pages got so far.
SoloStart(sc) ==
  [marker |-> sc.token, maxPageSize |-> sc.maxPageSize,
   requests |-> <<>>, pages |-> <<>>, error |-> "none"]

\* One round of listQueuesPage on those values.
SoloRound(solo) ==
  LET listResponse == listQueues(ListOptions(solo))
      sent == Append(solo.requests, listResources(ListOptions(solo)))
  IN  IF listResponse.threw
      THEN [solo EXCEPT !.requests = sent, !.error = listResponse.code]
      ELSE [solo EXCEPT !.requests = sent,
                        !.marker = listResponse.continuationToken,
                        !.pages = Append(@,
                           [items |-> listResponse.items,
                            continuationToken |->
                              listResponse.continuationToken])]

\* The scan sc taken alone through n rounds.
RECURSIVE SoloRun(_, _)
SoloRun(sc, n) == IF n = 0 THEN SoloStart(sc) ELSE SoloRound(SoloRun(sc, n - 1))

\* C32: scans running side by side do not touch each other.  In every state,
\* whatever the order in which the rounds of the scans were taken, each scan
\* has sent the list requests (and so the skip values), got the pages, holds
\* the marker and has the error that the same scan, from the same token and
\* page size, has after as many rounds taken alone.
C32_ParallelScansIndependent ==
  \A i \in ScanIds :
    scans[i].kind # "none" =>
      LET sc == scans[i]
          solo == SoloRun(sc, Len(sc.requests))
      IN  /\ sc.requests = solo.requests
          /\ sc.pages = solo.pages
          /\ sc.marker = solo.marker
          /\ sc.error = solo.error

\* C32 witness: two scans of different kinds are under way together, each
\* with two pages behind it, at different positions: the one over all queues
\* has no marker left, the one by pages holds a marker that leads on.
C32_Witness ==
  \E i, j \in ScanIds :
    /\ scans[i].kind = "all" /\ scans[j].kind = "page"
    /\ Len(scans[i].pages) = 2 /\ Len(scans[j].pages) = 2
    /\ ~Truthy(scans[i].marker) /\ Truthy(scans[j].marker)
    /\ scans[i].requests[2] # scans[j].requests[2]
    /\ scans[i].pc = "suspended" /\ scans[j].pc = "suspended"

(* ------------------------------------------------ dispositions in flight *)

\* A disposition of object o on its way to the transport, with what the
\* call found when it was made.
Call(o, verb) ==
  [obj |-> o, verb |-> verb, stateBefore |-> msgs[o].state,
   linkOpen |-> isOpen(msgs[o].link)]

\* The sequence without its k-th element.
Remove(seq, k) == SubSeq(seq, 1, k - 1) \o SubSeq(seq, k + 1, Len(seq))

\* The guard holding a disposition back while another disposition of the
\* same message is in flight.
settleMessageSent_OneAtATime(o, verb) ==
  /\ msgs[o].state # "None"
  /\ ~throwIfLinkSevered(msgs[o])
  /\ \A k \in 1..Len(inflight) : inflight[k].obj # o
  /\ Len(inflight) < MaxCalls
  /\ inflight' = Append(inflight, Call(o, verb))
  /\ result' = NoResult
  /\ UNCHANGED <<usesSessions, now, srv, receivers, msgs, nextObj, paging, management>>

\* A disposition the guard lets through: its request goes to the transport,
\* whatever else is in flight, and the caller awaits the answer.
settleMessageSent(o, verb) ==
  /\ msgs[o].state # "None"
  /\ ~throwIfLinkSevered(msgs[o])
  /\ Len(inflight) < MaxCalls
  /\ inflight' = Append(inflight, Call(o, verb))
  /\ result' = NoResult
  /\ UNCHANGED <<usesSessions, now, srv, receivers, msgs, nextObj, paging, management>>

\* msg.complete(), msg.abandon(), msg.defer(), msg.deadLetter() called by a
\* caller that does not await the call before: the guard decides at the
\* call.
settleMessageCalled(o, verb) ==
  \/ msgs[o].state # "None" /\ SettleRejected(o, verb)
  \/ settleMessageSent(o, verb)

\* The transport answers one of the requests in flight; the answer is the
\* outcome of that call.
settleMessageAnswered(k) ==
  /\ k \in 1..Len(inflight)
  /\ LET c == inflight[k]
         o == c.obj
     IN  \E kind \in DispositionAnswers(o) :
           /\ result' =
                [Answered(Outcome(o, c.verb, kind, TransportMessage(kind), 1, 0),
                          kind)
                   EXCEPT !.stateBefore = c.stateBefore,
                          !.linkOpen = c.linkOpen]
           /\ msgs' = [msgs EXCEPT ![o].state = NextState(@, kind),
                                   ![o].remote_settled = @ \/ kind = "ok"]
           /\ srv' = IF kind = "ok"
                     THEN [srv EXCEPT ![msgs[o].sm] = Disposed(msgs[o].sm, c.verb)]
                     ELSE srv
  /\ inflight' = Remove(inflight, k)
  /\ UNCHANGED <<usesSessions, now, receivers, nextObj, paging, management>>

\* The settlement with calls that overlap.
RaceNext ==
  \/ \E s \in MsgIds : sendMessages(s)
  \/ \E r \in ReceiverIds : getPeekLockReceiver(r)
  \/ \E r \in ReceiverIds : close(r)
  \/ \E r \in ReceiverIds : receiveMessages(r)
  \/ \E s \in MsgIds : LockExpire(s)
  \/ \E o \in ObjIds, verb \in DispositionVerbs : settleMessageCalled(o, verb)
  \/ \E k \in 1..MaxCalls : settleMessageAnswered(k)

RaceSpec == Init /\ [][RaceNext]_vars

\* C33: dispositions of one message that overlap are not held back and not
\* merged: while a Locked message's link is alive, a disposition of it can be
\* sent whatever is in flight already, sending changes neither the message
\* nor the entity, and every request in flight gets its own answer.  The
\* answer is decided by what the transport finds when it takes the request:
\* AlreadySettled (or a transport failure) when a disposition of the message
\* was confirmed in between, which leaves message and entity as the first
\* call left them; success when none was, the lock is held and the transport
\* does not fail.
C33_ConcurrentDispositions ==
  /\ [](\A o \in ObjIds, verb \in DispositionVerbs :
          (/\ msgs[o].state = "Locked"
           /\ isOpen(msgs[o].link)
           /\ Len(inflight) < MaxCalls) => ENABLED settleMessageSent(o, verb))
  /\ [][/\ Len(inflight') > Len(inflight) =>
             /\ \E o \in ObjIds, verb \in DispositionVerbs :
                  inflight' = Append(inflight, Call(o, verb))
             /\ msgs' = msgs
             /\ srv' = srv
        /\ Len(inflight') < Len(inflight) =>
             LET o == result'.obj
             IN  /\ Len(inflight') = Len(inflight) - 1
                 /\ result'.requests = 1
                 /\ msgs[o].remote_settled =>
                      /\ result'.outcome \in {"AlreadySettled", "Transport"}
                      /\ msgs'[o] = msgs[o]
                      /\ srv' = srv
                 /\ (/\ ~msgs[o].remote_settled
                     /\ LockHeld(o)
                     /\ result'.outcome # "Transport") =>
                      /\ result'.outcome = "ok"
                      /\ msgs'[o].state = "Settled"]_vars

\* C33 witness: a disposition that was sent while its message was Locked and
\* its link alive has been answered AlreadySettled: another disposition of
\* the message, sent before or after it, was confirmed first.
C33_Witness ==
  /\ DispositionReturned
  /\ result.stateBefore = "Locked"
  /\ result.linkOpen
  /\ isOpen(msgs[result.obj].link)
  /\ result.requests = 1
  /\ result.outcome = "AlreadySettled"
  /\ msgs[result.obj].state = "Settled"
  /\ inflight = <<>>

\* C34: the liveness of a link is not touched by the calls on a message.  A
\* step in which complete(), abandon(), defer(), deadLetter() or renewLock()
\* returns, whatever its outcome, leaves every link as it was and every
\* message bound to the link that delivered it; a link that was open and is
\* not open any more was closed by receiver.close(), a step that is no call
\* on a message, and a link that is closed stays closed.
C34_LinkLivenessReadOnly ==
  [][/\ result'.op \in Operations =>
          /\ receivers' = receivers
          /\ \A o \in ObjIds : msgs'[o].link = msgs[o].link
     /\ \A o \in ObjIds :
          msgs[o].state # "None" => msgs'[o].link = msgs[o].link
     /\ \A r \in ReceiverIds :
          /\ (isOpen(r) /\ receivers'[r] # "open") =>
                (receivers'[r] = "closed" /\ result' = NoResult)
          /\ receivers[r] = "closed" => receivers'[r] = "closed"]_vars

\* C34 witness: a disposition sent over an open link has just failed in the
\* transport; the link is open as before and the message still Locked.
C34_Witness ==
  \E o \in ObjIds :
    /\ result.obj = o
    /\ DispositionReturned
    /\ result.requests = 1
    /\ result.outcome = "Transport"
    /\ result.linkOpen
    /\ isOpen(msgs[o].link)
    /\ msgs[o].state = "Locked"

\* The $top a list request carries for the page size given to byPage().
TopOf(maxPageSize) ==
  IF maxPageSize = Undefined THEN Undefined
  ELSE Str(toString(maxPageSize.num.whole))

\* C35: every list request of a byPage() scan, the first and each one after
\* it, carries the maxPageSize given to byPage() as its $top (and none when
\* none was given); a getQueues() scan names no $top.  Each round of
\* listQueuesPage sends exactly one list request: a page scan has sent one
\* request for every next() that was answered with a page or an error, a
\* step adds at most one request to a scan, and a page arrives only with the
\* one request that asked for it.
C35_PageSizeOnEveryRequest ==
  /\ [](\A i \in ScanIds :
          LET sc == scans[i]
          IN  /\ \A k \in 1..Len(sc.requests) :
                   sc.requests[k].top = TopOf(sc.maxPageSize)
              /\ sc.kind = "all" => sc.maxPageSize = Undefined
              /\ sc.kind = "page" =>
                   Len(sc.requests) =
                     sc.pulls - (IF sc.awaiting THEN 1 ELSE 0)
                              - (IF sc.pc = "done" THEN 1 ELSE 0))
  /\ [][\A i \in ScanIds :
          /\ Len(scans'[i].requests) \in
               {Len(scans[i].requests), Len(scans[i].requests) + 1}
          /\ Len(scans'[i].pages) \in
               {Len(scans[i].pages), Len(scans[i].pages) + 1}
          /\ Len(scans'[i].pages) > Len(scans[i].pages) =>
               Len(scans'[i].requests) = Len(scans[i].requests) + 1
          /\ scans'[i].error # scans[i].error /\ scans[i].kind # "none" =>
               Len(scans'[i].requests) = Len(scans[i].requests) + 1]_vars

\* C35 witness: a byPage() scan with maxPageSize 1 has been asked for three
\* pages and has sent three list requests, each with $top=1, at three
\* different positions.
C35_Witness ==
  \E i \in ScanIds :
    /\ scans[i].kind = "page"
    /\ scans[i].maxPageSize = Num(IntegerValue(1))
    /\ scans[i].pulls = 3
    /\ Len(scans[i].requests) = 3
    /\ \A k \in 1..3 : scans[i].requests[k].top = Str(<<"1">>)
    /\ \A k \in 1..2 : scans[i].requests[k].skip # scans[i].requests[k + 1].skip
    /\ Len(scans[i].pages) = 3

(* ------------------------------------------------ existence of an entity *)

\* The kinds of entity a caller asks for, one name of each kind.
EntityKinds == {"queue", "topic", "subscription"}

\* What the service may hold under those names: a subscription lives in its
\* topic.
Namespaces ==
  { ns \in SUBSET EntityKinds : "subscription" \in ns => "topic" \in ns }

\* new RestError(message, code, statusCode, ...); origin says who raised it.
RestError(code, statusCode, origin) ==
  [code |-> code, statusCode |-> statusCode, origin |-> origin]

\* The errors a request may fail with whatever is asked for: the RestErrors
\* the operations document, and an error that has no code (an aborted
\* request; its code reads "undefined").
RequestErrors ==
  { RestError("UnauthorizedRequestError", 401, "service"),
    RestError("InvalidOperationError", 403, "service"),
    RestError("ServerBusyError", 503, "service"),
    RestError("ServiceError", 500, "service"),
    [code |-> "undefined", statusCode |-> 0, origin |-> "abort"] }

\* The Atom entry of an entity as the deserializer hands it on: the decoder
\* reads it (wellFormed), makes nothing of it, or throws on it.
RawEntry(kind, wellFormed, throws) ==
  [type |-> "entry", name |-> kind, wellFormed |-> wellFormed, throws |-> throws]

\* An empty feed.
EmptyFeed == [type |-> "array", records |-> <<>>, nextLink |-> Undefined]

\* executeAtomXmlOperation for GET <name>: what the request may come back
\* with.  An entity the service holds comes as its entry; one it does not
\* hold is answered 404, or with a body that is missing or an empty feed.
executeAtomXmlOperation(kind) ==
  { [threw |-> TRUE, error |-> e] : e \in RequestErrors }
  \cup
  (IF kind \in namespace
   THEN { [threw |-> FALSE, parsedBody |-> RawEntry(kind, TRUE, FALSE)],
          [threw |-> FALSE, parsedBody |-> RawEntry(kind, FALSE, FALSE)],
          [threw |-> FALSE, parsedBody |-> RawEntry(kind, FALSE, TRUE)] }
   ELSE { [threw |-> TRUE,
           error |-> RestError("MessageEntityNotFoundError", 404, "service")],
          [threw |-> FALSE, parsedBody |-> Undefined],
          [threw |-> FALSE, parsedBody |-> Null],
          [threw |-> FALSE, parsedBody |-> EmptyFeed] })

\* getResource letting a missing body through.
getResource_AnyBody(response) == response

\* getResource: the response, or the RestError MessageEntityNotFoundError
\* when the body is undefined, null or an empty array.
getResource(response) ==
  IF response.threw THEN response
  ELSE IF \/ response.parsedBody \in {Undefined, Null}
          \/ (response.parsedBody.type = "array"
              /\ response.parsedBody.records = <<>>)
  THEN [threw |-> TRUE,
        error |-> RestError("MessageEntityNotFoundError", 404, "getResource")]
  ELSE response

\* buildQueueResponse (and its likes for topics and subscriptions): the
\* decoded entity, or an empty object when the decoder makes nothing of the
\* body; a decoder that throws gives the RestError PARSE_ERROR.
buildQueueResponse(response) ==
  LET body == response.parsedBody
  IN  IF body.type = "entry" /\ body.throws
      THEN [threw |-> TRUE,
            error |-> RestError("PARSE_ERROR", 200, "buildQueueResponse")]
      ELSE [threw |-> FALSE,
            value |-> IF body.type = "entry" /\ buildQueue(body) # Undefined
                      THEN buildQueue(body) ELSE [type |-> "object"]]

\* getQueue, getTopic, getSubscription: getResource, then the response built
\* from it.
getQueue(response) ==
  IF getResource(response).threw THEN getResource(response)
  ELSE buildQueueResponse(getResource(response))

\* The inner catch taking every error of the get for "not found".
Exists_AnyErrorIsFalse(got) ==
  IF got.threw THEN [outcome |-> "false", error |-> Undefined]
  ELSE [outcome |-> "true", error |-> Undefined]

\* The body of queueExists, topicExists and subscriptionExists around the
\* get: true when it returns, false when it throws an error whose code is
\* MessageEntityNotFoundError, and any other error thrown on.
Exists(got) ==
  IF got.threw
  THEN IF got.error.code = "MessageEntityNotFoundError"
       THEN [outcome |-> "false", error |-> Undefined]
       ELSE [outcome |-> "threw", error |-> got.error]
  ELSE [outcome |-> "true", error |-> Undefined]

\* One existence call for an entity of the given kind.
ExistsCall(op, kind) ==
  /\ \E answer \in executeAtomXmlOperation(kind) :
       lookup' = [op |-> op, answer |-> answer,
                  outcome |-> Exists(getQueue(answer)).outcome,
                  error |-> Exists(getQueue(answer)).error]
  /\ UNCHANGED <<namespace, settlement, paging>>

queueExists == ExistsCall("queueExists", "queue")

topicExists == ExistsCall("topicExists", "topic")

subscriptionExists == ExistsCall("subscriptionExists", "subscription")

\* A namespace at the service and no call yet; nothing else goes on.
ExistsInit ==
  /\ usesSessions = FALSE
  /\ now = 0
  /\ srv = [s \in MsgIds |-> NoServerMsg]
  /\ receivers = [r \in ReceiverIds |-> "unopened"]
  /\ msgs = [o \in ObjIds |-> NoObj]
  /\ nextObj = 0
  /\ result = NoResult
  /\ inflight = <<>>
  /\ NoPaging
  /\ namespace \in Namespaces
  /\ lookup = NoLookup

ExistsNext ==
  \/ queueExists
  \/ topicExists
  \/ subscriptionExists

ExistsSpec == ExistsInit /\ [][ExistsNext]_vars

\* The kind of entity an existence call asks for.
KindOf(op) ==
  IF op = "queueExists" THEN "queue"
  ELSE IF op = "topicExists" THEN "topic" ELSE "subscription"

\* The request of the call came back with an entry the decoder does not
\* throw on: the get succeeds.
GetSucceeds ==
  /\ ~lookup.answer.threw
  /\ lookup.answer.parsedBody \notin {Undefined, Null}
  /\ lookup.answer.parsedBody.type = "entry"
  /\ ~lookup.answer.parsedBody.throws

\* The get fails with MessageEntityNotFoundError: the request failed with it,
\* or came back without a body or with an empty array.
GetFailsNotFound ==
  \/ lookup.answer.threw
       /\ lookup.answer.error.code = "MessageEntityNotFoundError"
  \/ ~lookup.answer.threw
       /\ lookup.answer.parsedBody \in {Undefined, Null, EmptyFeed}

\* C36: queueExists, topicExists and subscriptionExists return true exactly
\* when the get succeeds and false exactly when it fails with the code
\* MessageEntityNotFoundError, be it the error of the request or the one
\* getResource raises for a body that is missing or an empty array; any other
\* error of the get (of the request, or PARSE_ERROR of the response builder)
\* is thrown to the caller as it is.  The answer is true only for an entity
\* the service holds and never true for one it does not hold.
C36_ExistsOutcome ==
  lookup.op # "none" =>
    /\ (lookup.outcome = "true") = GetSucceeds
    /\ (lookup.outcome = "false") = GetFailsNotFound
    /\ lookup.outcome \in {"true", "false", "threw"}
    /\ lookup.outcome = "threw" =>
         /\ lookup.error # Undefined
         /\ lookup.error.code # "MessageEntityNotFoundError"
         /\ lookup.answer.threw => lookup.error = lookup.answer.error
         /\ ~lookup.answer.threw =>
              (lookup.error.code = "PARSE_ERROR"
               /\ lookup.answer.parsedBody.throws)
    /\ lookup.outcome # "threw" => lookup.error = Undefined
    /\ lookup.outcome = "true" => KindOf(lookup.op) \in namespace
    /\ lookup.outcome = "false" => KindOf(lookup.op) \notin namespace

\* C36 witness: subscriptionExists() has returned false for a subscription
\* the service does not hold in a topic it holds, the request having come
\* back with an empty array.
C36_Witness ==
  /\ lookup.op = "subscriptionExists"
  /\ namespace = {"topic"}
  /\ ~lookup.answer.threw
  /\ lookup.answer.parsedBody = EmptyFeed
  /\ lookup.outcome = "false"

\* C37: the continuation token of a page decides whether the scan goes on.
\* A page that was followed by another list request carried a token that is
\* a non-empty string, "0" among them; a scan that has ended has got a last
\* page whose token is undefined (no next link), null (a next link without
\* $skip) or the empty string (a next link with an empty $skip), and has sent
\* one request per page; while the last page's token is a non-empty string
\* the scan is not ended, and once the consumer asks on, the loop cannot end.
C37_TokenDecidesNextFetch ==
  \A i \in ScanIds :
    LET sc == scans[i]
        n == Len(sc.pages)
    IN  /\ \A k \in 1..n :
             k < Len(sc.requests) =>
               /\ sc.pages[k].continuationToken.type = "string"
               /\ sc.pages[k].continuationToken.chars # <<>>
        /\ sc.pc = "done" =>
             /\ n >= 1
             /\ Len(sc.requests) = n
             /\ sc.pages[n].continuationToken \in {Undefined, Null, Str(<<>>)}
        /\ (n >= 1 /\ Len(sc.requests) = n
              /\ sc.pages[n].continuationToken.type = "string"
              /\ sc.pages[n].continuationToken.chars # <<>>) =>
             /\ sc.pc = "suspended"
             /\ ~ENABLED ScanReturn(i)
        /\ (n >= 1 /\ sc.pc = "suspended" /\ sc.awaiting /\ sc.segment = <<>>
              /\ sc.pages[n].continuationToken \in {Undefined, Null, Str(<<>>)}) =>
             ENABLED ScanReturn(i)

\* C37 as stated: only an absent token ends a scan.
C37_Original ==
  \A i \in ScanIds :
    scans[i].pc = "done" =>
      scans[i].pages[Len(scans[i].pages)].continuationToken \in {Undefined, Null}

\* C37 witness: a scan got a first page with the token "0" and went on to
\* send a second list request.
C37_Witness ==
  \E i \in ScanIds :
    /\ Len(scans[i].pages) >= 1
    /\ scans[i].pages[1].continuationToken = Str(<<"0">>)
    /\ Len(scans[i].requests) >= 2
    /\ scans[i].pc = "suspended"

\* The $skip of the service's next links is a number or empty: the links
\* that parse are not the ones with a word for $skip or with none.
SkipIsNumeric == serviceFault.kind \notin {"wordSkip", "noSkip"}

\* C38: the continuation token of a page is the $skip of the service's next
\* link, handed on unchecked.  While that $skip is a number that is not
\* negative (or empty), every token a page carries is undefined or passes the
\* check of byPage(): no byPage() call given such a token has thrown.  A next
\* link whose $skip is a word, or that has none, puts a token on its page
\* ("abc", null) that the check of byPage() refuses: a byPage() call given
\* it back throws the invalid-token error.
C38_ReturnedTokenFeedsBack ==
  \A i \in ScanIds : \A k \in 1..Len(scans[i].pages) :
    LET t == scans[i].pages[k].continuationToken
    IN  /\ SkipIsNumeric =>
             /\ ~throwIfInvalidContinuationToken(t)
             /\ t \in {Undefined} \cup {Str(toString(n)) : n \in 0..MaxEntities}
                      \cup {Str(<<>>)}
             /\ \A j \in ScanIds : ~ByPageThrew(j, t)
        /\ (~SkipIsNumeric /\ HitsOddLink(scans[i].requests[k])) =>
             /\ t = OddToken
             /\ throwIfInvalidContinuationToken(t)
             /\ \A j \in ScanIds : scans[j].token = t => ByPageThrew(j, t)

\* C38 as stated: no byPage() call given a token that some page carried
\* throws the invalid-token error.
C38_Original ==
  \A i, j \in ScanIds : \A k \in 1..Len(scans[i].pages) :
    scans[i].pages[k].continuationToken # Undefined =>
      ~ByPageThrew(j, scans[i].pages[k].continuationToken)

\* C38 witness: the token of the first page of a scan, "2", was handed to
\* byPage(), which returned an iterator, and that iterator has yielded a
\* page.
C38_Witness ==
  \E i, j \in ScanIds :
    /\ i # j
    /\ Len(scans[i].pages) >= 1
    /\ scans[i].pages[1].continuationToken = Str(<<"2">>)
    /\ ByPageReturned(j, Str(<<"2">>))
    /\ scans[j].pages # <<>>
    /\ scans[j].error = "none"

(* ------------------------------------------- iterating an iterator again *)

\* [Symbol.asyncIterator]() handing out a fresh iterator over all queues.
asyncIterator_Restarts(i) ==
  /\ scans[i].kind = "all"
  /\ scans[i].pc \in {"start", "suspended", "done"}
  /\ ~scans[i].awaiting
  /\ Len(scans[i].passes) < MaxPasses
  /\ scans' = [scans EXCEPT ![i].passes = Append(@, Len(scans[i].items)),
                            ![i].pc = "start",
                            ![i].marker = Undefined,
                            ![i].segment = <<>>]
  /\ UNCHANGED <<collection, serviceFault>>
  /\ UNCHANGED <<settlement, management>>

\* [Symbol.asyncIterator]() of the object getQueues() returned, as `for
\* await` calls it when it starts: it returns that object.
asyncIterator(i) ==
  /\ scans[i].kind = "all"
  /\ ~scans[i].awaiting
  /\ Len(scans[i].passes) < MaxPasses
  /\ scans' = [scans EXCEPT ![i].passes = Append(@, Len(scans[i].items))]
  /\ UNCHANGED <<collection, serviceFault>>
  /\ UNCHANGED <<settlement, management>>

\* next() on the iterator of getQueues() after its generator has ended: the
\* generator answers done and runs nothing.
nextAfterEnd(i) ==
  /\ scans[i].kind = "all"
  /\ scans[i].pc \in {"done", "threw"}
  /\ scans[i].pulls <= Len(scans[i].items) + 1
  /\ scans' = [scans EXCEPT ![i].pulls = @ + 1]
  /\ UNCHANGED <<collection, serviceFault>>
  /\ UNCHANGED <<settlement, management>>

\* The listing with a caller that iterates over an iterator more than once.
PassNext ==
  \/ PageNext
  \/ \E i \in ScanIds : asyncIterator(i)
  \/ \E i \in ScanIds : nextAfterEnd(i)

\* A collection at a service that answers as the wire contract says.
PassInit == PageInit /\ serviceFault = NoFault

PassSpec == PassInit /\ [][PassNext]_vars

\* C39: the iterator of getQueues() is single-pass.  [Symbol.asyncIterator]()
\* changes nothing of it (it returns the same object over the same
\* generator), so however often the caller starts to iterate, the scan sends
\* its list requests as one scan does (only its first request asks for
\* position 0, each later one for a position behind the one before),
\* yields every queue at most once, in the
\* order of the collection, and, once ended, stays ended: a next() sends no
\* request and yields nothing.  Every byPage() call starts a scan of its own:
\* it begins at the token of the call with no request sent, leaves every
\* other scan as it is, and sends the requests of that scan taken alone.
C39_SinglePass ==
  /\ [](\A i \in ScanIds :
          LET sc == scans[i]
          IN  /\ sc.kind = "all" =>
                   /\ \A p \in 1..Len(sc.passes) : sc.passes[p] <= Len(sc.items)
                   /\ IsPrefix(ItemNames(sc), WellFormedNames(collection))
                   /\ \A k \in 2..Len(sc.requests) :
                        /\ sc.requests[k].skip # Undefined
                        /\ SkipValue(sc.requests[k - 1]).whole
                             < SkipValue(sc.requests[k]).whole
              /\ sc.kind # "none" =>
                   sc.requests = SoloRun(sc, Len(sc.requests)).requests)
  /\ [][\A i \in ScanIds :
          /\ scans'[i].passes # scans[i].passes =>
               [scans'[i] EXCEPT !.passes = scans[i].passes] = scans[i]
          /\ (scans[i].kind # "none" /\ scans[i].pc \in {"done", "threw"}) =>
               [scans'[i] EXCEPT !.pulls = scans[i].pulls,
                                 !.passes = scans[i].passes] = scans[i]
          /\ (scans[i].kind = "none" /\ scans'[i].kind = "page") =>
               /\ scans'[i].requests = <<>>
               /\ scans'[i].marker = scans'[i].token
               /\ scans'[i].passes = <<>>
               /\ \A j \in ScanIds \ {i} : scans'[j] = scans[j]]_vars

\* C39 witness: the caller started to iterate over the iterator of
\* getQueues(), left after the first queue and started again: the second
\* pass went on behind that queue, the scan of three queues ended having
\* sent two requests and yielded each queue once, and a next() after the end
\* found it exhausted.
C39_Witness ==
  \E i \in ScanIds :
    /\ scans[i].kind = "all"
    /\ scans[i].passes = <<0, 1>>
    /\ scans[i].pc = "done"
    /\ Len(collection) = 3
    /\ Len(scans[i].items) = 3
    /\ Len(scans[i].requests) = 2
    /\ scans[i].requests[2].skip = Str(<<"2">>)
    /\ scans[i].pulls = 5

============================================================================
